---------------------------- MODULE Spec2Model ----------------------------
(***************************************************************************)
(* Model of the V2V-OSM propagation-condition core (osm_pathloss.py,       *)
(* vehicles.py, sumo.py).                                                  *)
(*                                                                         *)
(* Conventions                                                             *)
(*   - coordinates are whole metres; a point is <<x, y>>;                  *)
(*   - a line (shapely LineString) is a sequence of vertices <<x, y, t>>   *)
(*     where t is 0 for a vertex that lies on the lattice point and -1/+1  *)
(*     for a vertex that lies 1e-8 before/after the lattice point along    *)
(*     the line it was cut from (split_line_at_point cuts with a disk of   *)
(*     radius 1e-8);                                                       *)
(*   - a shapely Point is <<x, y, d>>: the lattice point (x, y) moved d     *)
(*     nanometres off, across the line it is measured against; the         *)
(*     tolerance 1e-8 of split_line_at_point is 10 of them;                *)
(*   - a floating point length is carried in hundredths of a metre,        *)
(*     rounded up, so that a comparison with a whole number of metres is   *)
(*     exact; the 1e-8 of a cut is below that resolution;                  *)
(*   - a building footprint is an axis-parallel closed rectangle           *)
(*     <<xmin, ymin, xmax, ymax>>;                                         *)
(*   - a multigraph is [nodes : sequence of node names (the order of       *)
(*     graph.nodes()), node : name -> attributes, edges : set of           *)
(*     [u, v, key, length, geometry, ...], graph : graph attributes];      *)
(*   - an angle is carried in thousandths of a degree (PI is 180000); the  *)
(*     routes drawn run along the compass directions and the diagonals,    *)
(*     for which the floating point angles and their sums are exact;       *)
(*   - a call is recorded in ret as [kind |-> "returned", ...] or          *)
(*     [kind |-> "raised", error |-> ...].                                 *)
(***************************************************************************)
EXTENDS Integers, Sequences, FiniteSets, TLC

VARIABLES
    \* ---- add_edges_if_los exercised on its own (SpecLos)
    graph,          \* the graph handed to add_edges_if_los
    los_buildings,  \* the footprints handed to it
    max_distance,   \* its max_distance argument
    graph_before,   \* the graph as it was before the first run
    graph_prev,     \* the graph as it was before the latest run
    runs,           \* number of completed runs
    \* ---- one function exercised on its own (SpecNlos, ...)
    args,           \* the arguments of the call
    ret,            \* what the call returned or raised; NotCalled before it
    \* ---- a run of main_test (Spec); streets_wave and graphs_veh are also
    \* ---- the graphs handed to check_if_cons_orthogonal on its own (SpecRoute)
    pc,             \* the position of main_test
    streets,        \* data['streets']
    buildings,      \* data['buildings'], the footprints
    streets_wave,   \* the undirected street graph with the visibility edges
    rand_index,     \* the street of every vehicle
    points,         \* the points of the vehicles placed so far
    graphs_veh,     \* their local graphs
    index_center_veh,
    is_nlos,        \* one boolean for every other vehicle
    is_olos,        \* one boolean for every other vehicle that is not NLOS
    orth,           \* what check_if_cons_orthogonal returned or raised
    pathlosses,     \* the pathloss of every other vehicle, as the call that gives it
    index_in_range, \* one boolean for every other vehicle
    \* ---- a Vehicles table exercised on its own (SpecVehs)
    vehicles,       \* the Vehicles object
    journal         \* the set_* calls that went through since the latest
                    \* allocate or add_key, oldest first

losVars == <<graph, los_buildings, max_distance, graph_before, graph_prev, runs>>

fnVars == <<args, ret>>

plVars == <<pathlosses, index_in_range>>

mainVars == <<pc, streets, buildings, streets_wave, rand_index, points, graphs_veh,
              index_center_veh, is_nlos, is_olos, orth, plVars>>

vehVars == <<vehicles, journal>>

vars == <<losVars, fnVars, mainVars, vehVars>>

NotCalled == [kind |-> "not called"]

\* The variables of a specification that does not use them.
LosIdle ==
    /\ graph = [nodes |-> <<>>, node |-> <<>>, edges |-> {}, graph |-> <<>>]
    /\ los_buildings = <<>>
    /\ max_distance = 0
    /\ graph_before = graph
    /\ graph_prev = graph
    /\ runs = 0

EmptyGraph == [nodes |-> <<>>, node |-> <<>>, edges |-> {}, graph |-> <<>>]

\* The variables of main_test while another specification runs.
MainIdle ==
    /\ pc = "idle"
    /\ streets = EmptyGraph
    /\ buildings = <<>>
    /\ streets_wave = EmptyGraph
    /\ rand_index = <<>>
    /\ points = <<>>
    /\ graphs_veh = <<>>
    /\ index_center_veh = -1
    /\ is_nlos = <<>>
    /\ is_olos = <<>>
    /\ orth = NotCalled
    /\ pathlosses = <<>>
    /\ index_in_range = <<>>

FnIdle ==
    /\ args = <<>>
    /\ ret = NotCalled

\* No Vehicles table is built.
VehsIdle ==
    /\ vehicles = <<>>
    /\ journal = <<>>

-----------------------------------------------------------------------------
(* Arithmetic helpers *)

Abs(n) == IF n < 0 THEN -n ELSE n

Min2(a, b) == IF a <= b THEN a ELSE b

Max2(a, b) == IF a >= b THEN a ELSE b

RECURSIVE SqrtSearch(_, _, _)
\* Smallest r in lo..hi with r*r >= n.
SqrtSearch(n, lo, hi) ==
    IF lo >= hi THEN lo
    ELSE LET mid == (lo + hi) \div 2
         IN  IF mid * mid >= n THEN SqrtSearch(n, lo, mid)
             ELSE SqrtSearch(n, mid + 1, hi)

DistSq(a, b) == (a[1] - b[1]) * (a[1] - b[1]) + (a[2] - b[2]) * (a[2] - b[2])

\* np.linalg.norm(coords_u - coords_v, ord=2), in hundredths of a metre.
Norm(a, b) == SqrtSearch(10000 * DistSq(a, b), 0, 46340)

\* The comparison of a length with a whole number of metres.
Metres(m) == 100 * m

-----------------------------------------------------------------------------
(* Geometry: shapely predicates on lattice geometry *)

Vtx(p) == <<p[1], p[2], 0>>

\* geom.LineString([a, b])
LineString2(a, b) == <<Vtx(a), Vtx(b)>>

Cross(a, b, c) == (b[1] - a[1]) * (c[2] - a[2]) - (b[2] - a[2]) * (c[1] - a[1])

Corners(r) == {<<r[1], r[2]>>, <<r[3], r[2]>>, <<r[3], r[4]>>, <<r[1], r[4]>>}

\* line.intersects(polygon) for the two-point line a-b and the closed
\* rectangle r: no separating axis among the rectangle's and the line's.
SegIntersectsRect(a, b, r) ==
    /\ Max2(a[1], b[1]) >= r[1]
    /\ Min2(a[1], b[1]) <= r[3]
    /\ Max2(a[2], b[2]) >= r[2]
    /\ Min2(a[2], b[2]) <= r[4]
    /\ ~(\A c \in Corners(r) : Cross(a, b, c) > 0)
    /\ ~(\A c \in Corners(r) : Cross(a, b, c) < 0)

RECURSIVE IntersectsFromNoBreak(_, _, _)
\* A slip: the loop runs on after a hit, so the last footprint decides.
IntersectsFromNoBreak(line, blds, i) ==
    IF i > Len(blds) THEN FALSE
    ELSE IF i = Len(blds) THEN SegIntersectsRect(line[1], line[Len(line)], blds[i])
    ELSE IntersectsFromNoBreak(line, blds, i + 1)

RECURSIVE IntersectsFrom(_, _, _)
\* The loop of line_intersects_buildings from footprint i on: the first
\* intersecting footprint ends it.
IntersectsFrom(line, blds, i) ==
    IF i > Len(blds) THEN FALSE
    ELSE IF SegIntersectsRect(line[1], line[Len(line)], blds[i]) THEN TRUE
    ELSE IntersectsFrom(line, blds, i + 1)

line_intersects_buildings(line, blds) == IntersectsFrom(line, blds, 1)

\* is_nlos[index] for every point of point_vehs.
veh_cons_are_nlos(point_own, point_vehs, blds) ==
    [index \in 1..Len(point_vehs) |->
        line_intersects_buildings(LineString2(point_own, point_vehs[index]), blds)]

-----------------------------------------------------------------------------
(* Lines: length, interpolation, distance to a point, split *)

XY(p) == <<p[1], p[2]>>

SeqRange(s) == {s[i] : i \in 1..Len(s)}

RECURSIVE LengthFrom(_, _)
\* line.length from vertex i on, in hundredths of a metre.
LengthFrom(line, i) ==
    IF i >= Len(line) THEN 0
    ELSE Norm(line[i], line[i + 1]) + LengthFrom(line, i + 1)

LineLength(line) == LengthFrom(line, 1)

\* The lattice point p lies on the closed segment a-b.
OnSegment(a, b, p) ==
    /\ Cross(a, b, p) = 0
    /\ Min2(a[1], b[1]) <= p[1] /\ p[1] <= Max2(a[1], b[1])
    /\ Min2(a[2], b[2]) <= p[2] /\ p[2] <= Max2(a[2], b[2])

OnLine(line, p) == \E k \in 1..(Len(line) - 1) : OnSegment(line[k], line[k + 1], p)

\* The first segment of the line that holds p.
SegIndex(line, p) ==
    CHOOSE k \in 1..(Len(line) - 1) :
        /\ OnSegment(line[k], line[k + 1], p)
        /\ \A j \in 1..(k - 1) : ~OnSegment(line[j], line[j + 1], p)

RECURSIVE InterpolateFrom(_, _, _)
\* The point d hundredths of a metre along the line from vertex i on
\* (the segments of the lines drawn are whole metres long).
InterpolateFrom(line, i, d) ==
    LET a   == line[i]
        b   == line[i + 1]
        len == Norm(a, b)
    IN  IF d <= len \/ i + 1 = Len(line)
        THEN IF len = 0 THEN <<a[1], a[2], 0>>
             ELSE <<a[1] + ((b[1] - a[1]) * Min2(d, len)) \div len,
                    a[2] + ((b[2] - a[2]) * Min2(d, len)) \div len, 0>>
        ELSE InterpolateFrom(line, i + 1, d - len)

\* street.interpolate(dist, normalized=True) for dist = pos[1] / pos[2].
Interpolate(line, pos) == InterpolateFrom(line, 1, (LineLength(line) * pos[1]) \div pos[2])

\* line.distance(point) in nanometres: the point's own offset when its
\* lattice point is on the line, and otherwise more than a centimetre.
LineDistance(line, point) ==
    IF OnLine(line, XY(point)) THEN point[3] ELSE 10000000 + point[3]

\* The tolerance of split_line_at_point, 1e-8, in nanometres.
SplitTolerance == 10

\* The radius of the disk the line is split with, 1e-8, in nanometres.
BufferRadius == 10

\* ops.split(line, point.buffer(1e-8)): the parts of the line cut where the
\* rim of the disk crosses it.  A disk whose centre is nearer than its radius
\* cuts just before and just after the point, but not beyond an end of the
\* line; a disk that only touches the line cuts at the touching point, and
\* not at all when that is an end.
ops_split(line, point) ==
    LET p       == XY(point)
        n       == Len(line)
        k       == SegIndex(line, p)
        atStart == p = XY(line[1])
        atEnd   == p = XY(line[n])
        atVtx   == p = XY(line[k + 1]) /\ ~atEnd
        tailVs  == IF p = XY(line[k + 1]) THEN SubSeq(line, k + 2, n)
                   ELSE SubSeq(line, k + 1, n)
        before  == SubSeq(line, 1, k) \o <<(<<p[1], p[2], -1>>)>>
        after   == <<(<<p[1], p[2], 1>>)>> \o tailVs
        middle  == (IF atStart THEN <<line[1]>> ELSE <<(<<p[1], p[2], -1>>)>>)
                   \o (IF atVtx THEN <<(<<p[1], p[2], 0>>)>> ELSE <<>>)
                   \o (IF atEnd THEN <<line[n]>> ELSE <<(<<p[1], p[2], 1>>)>>)
    IN  IF point[3] < BufferRadius
        THEN (IF atStart THEN <<>> ELSE <<before>>) \o <<middle>>
             \o (IF atEnd THEN <<>> ELSE <<after>>)
        ELSE IF atStart \/ atEnd THEN <<line>>
        ELSE <<SubSeq(line, 1, k) \o <<(<<p[1], p[2], 0>>)>>,
               <<(<<p[1], p[2], 0>>)>> \o tailVs>>

\* A slip: the boundary distance raises as well.
split_line_at_point_strict(line, point) ==
    IF LineDistance(line, point) >= SplitTolerance
    THEN [kind |-> "raised", error |-> "ValueError"]
    ELSE LET line_split == ops_split(line, point)
         IN  IF Len(line_split) < 3
             THEN [kind |-> "raised", error |-> "IndexError"]
             ELSE [kind |-> "returned",
                   line_before |-> line_split[1], line_after |-> line_split[3]]

\* split_line_at_point: raise ValueError off the line, else return parts 0
\* and 2 of the split (IndexError when the split has fewer than three).
split_line_at_point(line, point) ==
    IF LineDistance(line, point) > SplitTolerance
    THEN [kind |-> "raised", error |-> "ValueError"]
    ELSE LET line_split == ops_split(line, point)
         IN  IF Len(line_split) < 3
             THEN [kind |-> "raised", error |-> "IndexError"]
             ELSE [kind |-> "returned",
                   line_before |-> line_split[1], line_after |-> line_split[3]]

-----------------------------------------------------------------------------
(* Multigraphs *)

Joins(e, a, b) == (e.u = a /\ e.v = b) \/ (e.u = b /\ e.v = a)

EdgesBetween(g, a, b) == {e \in g.edges : Joins(e, a, b)}

\* graph.has_edge(u, v)
has_edge(g, a, b) == EdgesBetween(g, a, b) # {}

\* MultiGraph.add_edge(u, v, attr_dict): a new edge under the first unused key.
add_edge(g, a, b, attr) ==
    LET used == {e.key : e \in EdgesBetween(g, a, b)}
        key  == CHOOSE k \in 0..Cardinality(used) :
                    k \notin used /\ \A j \in 0..(k - 1) : j \in used
    IN  [g EXCEPT !.edges = @ \cup {[u |-> a, v |-> b, key |-> key] @@ attr}]

-----------------------------------------------------------------------------
(* Vehicle placement: one iteration of the loop of generate_vehs (and of    *)
(* the same loop in main_test)                                              *)

\* 'v' + str(iteration)
VehName == <<"v0", "v1", "v2", "v3", "v4", "v5">>

\* nx.MultiGraph(node_veh=node) with the vehicle node and its attributes.
NewVehGraph(node, point) ==
    [nodes |-> <<node>>,
     node  |-> (node :> [geometry |-> point, x |-> point[1], y |-> point[2]]),
     edges |-> {},
     graph |-> [node_veh |-> node]]

\* graph.add_nodes_from / the nodes add_edge creates: a node not yet there.
add_node(g, n) ==
    IF n \in SeqRange(g.nodes) THEN g ELSE [g EXCEPT !.nodes = Append(@, n)]

\* The loop body: interpolate the point, split the street there and wire
\* the vehicle node to both ends of the street.
PlaceVeh(street, pos, iteration) ==
    LET point_veh == Interpolate(street.geometry, pos)
        node      == VehName[iteration + 1]
        g0        == add_node(add_node(NewVehGraph(node, point_veh), street.u), street.v)
        parts     == split_line_at_point(street.geometry, point_veh)
    IN  IF parts.kind = "raised" THEN parts
        ELSE LET g1 == add_edge(g0, node, street.u,
                           [geometry |-> parts.line_before,
                            length |-> LineLength(parts.line_before),
                            is_veh_edge |-> TRUE])
                 g2 == add_edge(g1, node, street.v,
                           [geometry |-> parts.line_after,
                            length |-> LineLength(parts.line_after),
                            is_veh_edge |-> TRUE])
             IN  [kind |-> "returned", point |-> point_veh, graph |-> g2]

RECURSIVE PlaceLoop(_, _, _, _, _, _)
\* The loop of generate_vehs from iteration it on; draws[it + 1] is the
\* value np.random.random() returns in that iteration.
PlaceLoop(edges, street_idxs, draws, it, points_vehs, graphs_vehs) ==
    IF it >= Len(street_idxs)
    THEN [kind |-> "returned",
          vehs |-> [count |-> Len(points_vehs), points |-> points_vehs,
                    graphs |-> graphs_vehs]]
    ELSE LET placed == PlaceVeh(edges[street_idxs[it + 1]], draws[it + 1], it)
         IN  IF placed.kind = "raised" THEN placed
             ELSE PlaceLoop(edges, street_idxs, draws, it + 1,
                            Append(points_vehs, placed.point),
                            Append(graphs_vehs, placed.graph))

generate_vehs(edges, street_idxs, draws) ==
    PlaceLoop(edges, street_idxs, draws, 0, <<>>, <<>>)

-----------------------------------------------------------------------------
(* Routing: nx.compose, nx.shortest_path, line_route_between_nodes *)

\* A slip: the union as it is for graphs without parallel edges: between two
\* nodes the last edge added stays, an edge of G before one of H.
ComposeSimple(G, H) ==
    LET ends == {{e.u, e.v} : e \in G.edges \cup H.edges}
        between(S, pair) == {e \in S : {e.u, e.v} = pair}
        last(S) == CHOOSE e \in S : \A f \in S : f.key <= e.key
    IN  [nodes |-> H.nodes \o SelectSeq(G.nodes, LAMBDA n : n \notin SeqRange(H.nodes)),
         node  |-> H.node @@ G.node,
         edges |-> {IF between(G.edges, pair) # {} THEN last(between(G.edges, pair))
                    ELSE last(between(H.edges, pair)) : pair \in ends},
         graph |-> H.graph @@ G.graph]

\* The graph nx.compose(G, H) builds: the nodes and edges of H, then those
\* of G; an edge of G with the ends and key of an edge of H updates that
\* edge's attributes; node and graph attributes of H take precedence.
ComposeGraph(G, H) ==
    LET SameEdge(e, f) == Joins(e, f.u, f.v) /\ e.key = f.key
        kept   == {f \in H.edges : ~\E e \in G.edges : SameEdge(e, f)}
        merged == {ef[1] @@ ef[2] :
                      ef \in {p \in G.edges \X H.edges : SameEdge(p[1], p[2])}}
        added  == {e \in G.edges : ~\E f \in H.edges : SameEdge(e, f)}
    IN  [nodes |-> H.nodes \o SelectSeq(G.nodes, LAMBDA n : n \notin SeqRange(H.nodes)),
         node  |-> H.node @@ G.node,
         edges |-> kept \cup merged \cup added,
         graph |-> H.graph @@ G.graph]

\* A slip: the union is built in H itself, which is returned.
compose_into(G, H) ==
    [result |-> ComposeGraph(G, H), G |-> G, H |-> ComposeGraph(G, H)]

\* The call nx.compose(G, H): the union is a new graph; G and H stay as
\* they are.
compose(G, H) ==
    [result |-> ComposeGraph(G, H), G |-> G, H |-> H]

Neighbours(g, n) ==
    {IF e.u = n THEN e.v ELSE e.u : e \in {f \in g.edges : f.u = n \/ f.v = n}}

\* The weight Dijkstra gives the step a-b of a multigraph: the least
\* 'length' among the parallel edges.
StepWeight(g, a, b) ==
    LET ls == {e.length : e \in EdgesBetween(g, a, b)}
    IN  CHOOSE l \in ls : \A m \in ls : l <= m

\* The distance of a node Dijkstra has not reached.
Unreached == -1

RECURSIVE Relax(_, _, _)
\* The distances from the source after k more rounds of relaxing every edge.
Relax(g, dist, k) ==
    IF k = 0 THEN dist
    ELSE LET via(n) == {dist[m] + StepWeight(g, m, n) :
                            m \in {q \in Neighbours(g, n) : dist[q] # Unreached}}
                       \cup (IF dist[n] # Unreached THEN {dist[n]} ELSE {})
             next == [n \in DOMAIN dist |->
                        IF via(n) = {} THEN Unreached
                        ELSE CHOOSE d \in via(n) : \A d2 \in via(n) : d <= d2]
         IN  IF next = dist THEN dist ELSE Relax(g, next, k - 1)

\* The length of the shortest path from node_from to every node.
Distances(g, node_from) ==
    Relax(g, [n \in SeqRange(g.nodes) |-> IF n = node_from THEN 0 ELSE Unreached],
          Len(g.nodes))

RECURSIVE PathsTo(_, _, _, _)
\* The shortest paths from node_from to n: a shortest path to a neighbour
\* m that is as much nearer as the step m-n is long, and then that step.
PathsTo(g, dist, node_from, n) ==
    IF n = node_from THEN {<<n>>}
    ELSE UNION {{Append(q, n) : q \in PathsTo(g, dist, node_from, m)} :
                    m \in {q \in Neighbours(g, n) :
                              /\ dist[q] # Unreached
                              /\ dist[q] < dist[n]
                              /\ dist[q] + StepWeight(g, q, n) = dist[n]}}

\* nx.shortest_path(graph, node_from, node_to, weight='length'): the paths
\* of least weight, of which Dijkstra returns one; none when node_to cannot
\* be reached (NetworkXNoPath).
ShortestPaths(g, node_from, node_to) ==
    LET dist == Distances(g, node_from)
    IN  IF dist[node_to] = Unreached THEN {}
        ELSE PathsTo(g, dist, node_from, node_to)

\* A slip: the first parallel edge, in key order, whatever its length.
FirstParallel(g, a, b) ==
    LET es == EdgesBetween(g, a, b)
    IN  CHOOSE e \in es : \A f \in es : e.key <= f.key

\* min(graph.edge[u][v].values(), key=length): the first of the shortest
\* parallel edges, in key order.
ShortestParallel(g, a, b) ==
    LET es == EdgesBetween(g, a, b)
    IN  CHOOSE e \in es :
            \A f \in es : e.length < f.length \/ (e.length = f.length /\ e.key <= f.key)

Reverse(s) == [i \in 1..Len(s) |-> s[Len(s) + 1 - i]]

\* Joins the line l onto the chain acc where an end of one is an end of the
\* other; <<>> when they share no end.
MergeTwo(acc, l) ==
    LET n == Len(acc)
        m == Len(l)
    IN  IF acc[n] = l[1] THEN acc \o Tail(l)
        ELSE IF acc[n] = l[m] THEN acc \o Tail(Reverse(l))
        ELSE IF acc[1] = l[1] THEN Reverse(acc) \o Tail(l)
        ELSE IF acc[1] = l[m] THEN Reverse(acc) \o Tail(Reverse(l))
        ELSE <<>>

RECURSIVE MergeFrom(_, _, _)
MergeFrom(acc, lines, i) ==
    IF i > Len(lines) \/ acc = <<>> THEN acc
    ELSE MergeFrom(MergeTwo(acc, lines[i]), lines, i + 1)

Sign(n) == IF n > 0 THEN 1 ELSE IF n < 0 THEN -1 ELSE 0

\* The place of an end vertex of a merged line in the order of its
\* coordinates (x, then y); a cut vertex lies 1e-8 towards its neighbour.
EndKey(v, nb) ==
    <<v[1], Sign(v[3] * v[3] * (nb[1] - v[1])), v[2], Sign(v[3] * v[3] * (nb[2] - v[2]))>>

RECURSIVE LexLess(_, _, _)
LexLess(a, b, i) ==
    IF i > Len(a) THEN FALSE
    ELSE IF a[i] # b[i] THEN a[i] < b[i]
    ELSE LexLess(a, b, i + 1)

\* ops.linemerge(lines) for the lines of a path, in path order: one
\* LineString when consecutive lines share ends, starting at its end of
\* least coordinates, and a MultiLineString (no coords) otherwise.
linemerge(lines) ==
    IF lines = <<>> THEN [type |-> "GeometryCollection"]
    ELSE LET chain == MergeFrom(lines[1], lines, 2)
             n     == Len(chain)
         IN  IF chain = <<>> THEN [type |-> "MultiLineString"]
             ELSE IF LexLess(EndKey(chain[n], chain[n - 1]), EndKey(chain[1], chain[2]), 1)
                  THEN [type |-> "LineString", coords |-> Reverse(chain)]
                  ELSE [type |-> "LineString", coords |-> chain]

\* line_route_between_nodes, given the path nx.shortest_path returned.
line_route(route, g) ==
    linemerge([i \in 1..(Len(route) - 1) |->
                  ShortestParallel(g, route[i], route[i + 1]).geometry])

-----------------------------------------------------------------------------
(* Angles along a route and the orthogonal/parallel decision *)

\* np.pi, in thousandths of a degree.
PI == 180000

RECURSIVE Gcd(_, _)
Gcd(a, b) == IF b = 0 THEN a ELSE Gcd(b, a % b)

\* arctan(b / a) for 0 <= b <= a, a > 0, in thousandths of a degree.
ArctanOctant(a0, b0) ==
    LET g == Gcd(a0, b0)
        a == a0 \div g
        b == b0 \div g
    IN  CASE a = 1 /\ b = 0 -> 0
          [] a = 1 /\ b = 1 -> 45000
          [] a = 2 /\ b = 1 -> 26565
          [] a = 3 /\ b = 1 -> 18435
          [] a = 3 /\ b = 2 -> 33690
          [] a = 4 /\ b = 1 -> 14036
          [] a = 4 /\ b = 3 -> 36870

\* np.arctan2(x1, x2), in thousandths of a degree, in (-PI, PI].
arctan2(x1, x2) ==
    LET ay   == Abs(x1)
        ax   == Abs(x2)
        base == IF ax = 0 /\ ay = 0 THEN 0
                ELSE IF ay <= ax THEN ArctanOctant(ax, ay)
                ELSE PI \div 2 - ArctanOctant(ay, ax)
    IN  IF x2 >= 0 THEN (IF x1 >= 0 THEN base ELSE -base)
        ELSE (IF x1 >= 0 THEN PI - base ELSE base - PI)

RECURSIVE AnglesFrom(_, _, _)
\* The loop of angles_along_line from index on; the result holds angles[0..].
AnglesFrom(coords, index, angle_temp_prev) ==
    IF index + 2 > Len(coords) THEN <<>>
    ELSE LET coord      == coords[index + 2]
             coord_prev == coords[index + 1]
             angle_temp == arctan2(coord[1] - coord_prev[1], coord[2] - coord_prev[2])
             angle      == IF angle_temp - angle_temp_prev < PI
                           THEN angle_temp - angle_temp_prev + PI
                           ELSE angle_temp - angle_temp_prev - PI
         IN  (IF index # 0 THEN <<angle>> ELSE <<>>)
             \o AnglesFrom(coords, index + 1, angle_temp)

angles_along_line(coords) == AnglesFrom(coords, 0, 0)

\* A slip: the angle is brought into [0, 2 pi) and not into [-pi, pi).
wrap_to_2pi(angle) == angle % (2 * PI)

\* wrap_to_pi: the angle brought into [-pi, pi).
wrap_to_pi(angle) == ((angle + PI) % (2 * PI)) - PI

RECURSIVE SumSeq(_, _)
SumSeq(s, i) == IF i > Len(s) THEN 0 ELSE s[i] + SumSeq(s, i + 1)

\* A slip: the last index of the greatest element.
argmax_last(s) ==
    CHOOSE i \in 0..(Len(s) - 1) :
        /\ \A j \in 0..(Len(s) - 1) : s[j + 1] <= s[i + 1]
        /\ \A j \in (i + 1)..(Len(s) - 1) : s[j + 1] < s[i + 1]

\* np.argmax: the first index (from 0) of the greatest element.
argmax(s) ==
    CHOOSE i \in 0..(Len(s) - 1) :
        /\ \A j \in 0..(Len(s) - 1) : s[j + 1] <= s[i + 1]
        /\ \A j \in 0..(i - 1) : s[j + 1] < s[i + 1]

\* A slip: a sum equal to max_angle counts as orthogonal.
SumBelowOrEqual(sum_angles, max_angle) == sum_angles <= max_angle

\* if sum_angles < max_angle
SumBelow(sum_angles, max_angle) == sum_angles < max_angle

\* The loop body of check_if_cons_orthogonal once the route is known: the
\* angles, their sum, the decision and the place of the greatest angle.
\* A route that is no single line has no coords; np.zeros fails for fewer
\* than two coords and np.argmax for an empty sequence of angles.
ConOrthogonal(route, max_angle) ==
    IF route.type # "LineString"
    THEN [kind |-> "raised", error |-> "NotImplementedError"]
    ELSE IF Len(route.coords) < 2
    THEN [kind |-> "raised", error |-> "ValueError"]
    ELSE LET angles         == angles_along_line(route.coords)
             angles_wrapped == [i \in 1..Len(angles) |-> PI - Abs(wrap_to_pi(angles[i]))]
             sum_angles     == SumSeq(angles_wrapped, 1)
             is_orthogonal  == SumBelow(sum_angles, max_angle)
         IN  IF angles_wrapped = <<>>
             THEN [kind |-> "raised", error |-> "ValueError"]
             ELSE [kind |-> "returned",
                   is_orthogonal |-> is_orthogonal,
                   sum_angles |-> sum_angles,
                   angles_wrapped |-> angles_wrapped,
                   coords_max_angle |-> XY(route.coords[argmax(angles_wrapped) + 2])]

\* A slip: a pair without a path keeps the values np.zeros gave it and the
\* call returns.
NoPathDefault(index, acc, o) ==
    {[ret |-> [kind |-> "returned",
               is_orthogonal |-> Append(acc.is_orthogonal, FALSE),
               coords_max_angle |-> Append(acc.coords_max_angle, <<0, 0>>),
               route |-> acc.route, path |-> acc.path],
      objects |-> o]}

\* nx.shortest_path finds no path from node_own to node_v: NetworkXNoPath
\* leaves line_route_between_nodes and check_if_cons_orthogonal, neither of
\* which catches it; nothing is recorded for the pair at index.
NoPath(index, acc, o) ==
    {[ret |-> [kind |-> "raised", error |-> "NetworkXNoPath",
               index |-> index - 1] @@ acc,
      objects |-> o]}

RECURSIVE OrthLoop(_, _, _, _, _, _)
\* The loop of check_if_cons_orthogonal from index on.  o holds the graphs
\* the caller handed in, as they are now; acc holds is_orthogonal,
\* coords_max_angle, the route and the path of every index done.  The result is the
\* set of outcomes, one for every shortest path Dijkstra may return.
OrthLoop(streets_wave_local, o, index, max_angle, node_own, acc) ==
    IF index > Len(o.graphs_veh_other)
    THEN {[ret |-> [kind |-> "returned"] @@ acc, objects |-> o]}
    ELSE LET graph_v == o.graphs_veh_other[index]
             node_v  == graph_v.graph.node_veh
             c       == compose(graph_v, streets_wave_local)
             o2     == [o EXCEPT !.graphs_veh_other[index] = c.G]
             paths  == ShortestPaths(c.result, node_own, node_v)
         IN  IF paths = {} THEN NoPath(index, acc, o2)
             ELSE UNION {
                 LET route == line_route(path, c.result)
                     r     == ConOrthogonal(route, max_angle)
                 IN  IF r.kind = "raised"
                     THEN {[ret |-> [kind |-> "raised", error |-> r.error,
                                     index |-> index - 1,
                                     is_orthogonal |-> acc.is_orthogonal,
                                     coords_max_angle |-> acc.coords_max_angle,
                                     route |-> Append(acc.route, route),
                                     path |-> Append(acc.path, path)],
                            objects |-> o2]}
                     ELSE OrthLoop(c.H, o2, index + 1, max_angle, node_own,
                                   [is_orthogonal |-> Append(acc.is_orthogonal, r.is_orthogonal),
                                    coords_max_angle |->
                                        Append(acc.coords_max_angle, r.coords_max_angle),
                                    route |-> Append(acc.route, route),
                                    path |-> Append(acc.path, path)])
                 : path \in paths}

\* check_if_cons_orthogonal(streets_wave, graph_veh_own, graphs_veh_other,
\* max_angle): every outcome of the call, each with the graphs handed in as
\* the call leaves them.
check_if_cons_orthogonal(wave, graph_veh_own, graphs_veh_other, max_angle) ==
    LET node_own == graph_veh_own.graph.node_veh
        c        == compose(graph_veh_own, wave)
    IN  OrthLoop(c.result,
                 [streets_wave |-> c.H, graph_veh_own |-> c.G,
                  graphs_veh_other |-> graphs_veh_other],
                 1, max_angle, node_own,
                 [is_orthogonal |-> <<>>, coords_max_angle |-> <<>>, route |-> <<>>,
                  path |-> <<>>])

-----------------------------------------------------------------------------
(* add_edges_if_los *)

\* A slip: the boundary distance is rejected.
LosPairStepExclusive(g, blds, maxd, node_u, node_v) ==
    LET coords_u == <<g.node[node_u].x, g.node[node_u].y>>
        coords_v == <<g.node[node_v].x, g.node[node_v].y>>
        distance == Norm(coords_u, coords_v)
        line     == LineString2(coords_u, coords_v)
    IN  IF has_edge(g, node_u, node_v) THEN g
        ELSE IF distance >= Metres(maxd) THEN g
        ELSE IF line_intersects_buildings(line, blds) THEN g
        ELSE add_edge(g, node_u, node_v, [length |-> distance, geometry |-> line])

\* A slip: the check for an existing edge is left out.
LosPairStepNoCheck(g, blds, maxd, node_u, node_v) ==
    LET coords_u == <<g.node[node_u].x, g.node[node_u].y>>
        coords_v == <<g.node[node_v].x, g.node[node_v].y>>
        distance == Norm(coords_u, coords_v)
        line     == LineString2(coords_u, coords_v)
    IN  IF distance > Metres(maxd) THEN g
        ELSE IF line_intersects_buildings(line, blds) THEN g
        ELSE add_edge(g, node_u, node_v, [length |-> distance, geometry |-> line])

\* The body of the inner loop for the pair (node_u, node_v).
LosPairStep(g, blds, maxd, node_u, node_v) ==
    LET coords_u == <<g.node[node_u].x, g.node[node_u].y>>
        coords_v == <<g.node[node_v].x, g.node[node_v].y>>
        distance == Norm(coords_u, coords_v)
        line     == LineString2(coords_u, coords_v)
    IN  IF has_edge(g, node_u, node_v) THEN g
        ELSE IF distance > Metres(maxd) THEN g
        ELSE IF line_intersects_buildings(line, blds) THEN g
        ELSE add_edge(g, node_u, node_v, [length |-> distance, geometry |-> line])

RECURSIVE LosLoop(_, _, _, _, _)
\* The two nested loops, at outer index i and inner index j (i < j).
LosLoop(g, blds, maxd, i, j) ==
    LET n == Len(g.nodes)
    IN  IF i > n THEN g
        ELSE IF j > n THEN LosLoop(g, blds, maxd, i + 1, i + 2)
        ELSE LosLoop(LosPairStep(g, blds, maxd, g.nodes[i], g.nodes[j]),
                     blds, maxd, i, j + 1)

add_edges_if_los(g, blds, maxd) == LosLoop(g, blds, maxd, 1, 2)

-----------------------------------------------------------------------------
(* SpecLos: add_edges_if_los on bounded graphs, run up to MaxRuns times *)

\* Number of intersections of the graphs drawn.
LosNodeCount == 4

\* Number of runs of the builder on one graph.
MaxRuns == 2

LosXY == <<(<<0, 0>>), (<<30, 0>>), (<<30, 40>>), (<<60, 0>>), (<<0, 40>>), (<<60, 40>>)>>

LosNodes == [i \in 1..LosNodeCount |-> i]

\* Streets a drawn graph may already hold: a straight street, a curved
\* parallel street between the same intersections, and streets whose
\* recorded length differs from the distance of their ends.
LosStreets ==
    { [u |-> 1, v |-> 2, key |-> 0, length |-> 3000,
       geometry |-> <<(<<0, 0, 0>>), (<<30, 0, 0>>)>>],
      [u |-> 1, v |-> 2, key |-> 1, length |-> 3325,
       geometry |-> <<(<<0, 0, 0>>), (<<15, 5, 0>>), (<<30, 0, 0>>)>>],
      [u |-> 2, v |-> 3, key |-> 0, length |-> 4001,
       geometry |-> <<(<<30, 0, 0>>), (<<30, 40, 0>>)>>],
      [u |-> 4, v |-> 2, key |-> 0, length |-> 3000,
       geometry |-> <<(<<60, 0, 0>>), (<<30, 0, 0>>)>>],
      [u |-> 1, v |-> 3, key |-> 0, length |-> 7000,
       geometry |-> <<(<<0, 0, 0>>), (<<0, 40, 0>>), (<<30, 40, 0>>)>>] }

\* Footprints: one astride both diagonals of the block, one astride 3-4,
\* one that only touches the line 2-3 with its side.
LosFootprints == <<(<<10, 15, 20, 25>>), (<<40, 10, 50, 30>>), (<<30, 10, 35, 20>>)>>

RECURSIVE Subsequences(_)
\* Every sequence obtained from s by leaving elements out.
Subsequences(s) ==
    IF s = <<>> THEN {<<>>}
    ELSE LET rest == Subsequences(Tail(s))
         IN  rest \cup {<<Head(s)>> \o t : t \in rest}

LosBuildingChoices == Subsequences(LosFootprints) \cup {<<LosFootprints[2], LosFootprints[1]>>}

LosEdgeChoices ==
    {S \in SUBSET LosStreets :
        \A e \in S : e.key > 0 => \E f \in S : f.u = e.u /\ f.v = e.v /\ f.key = 0}

LosInit ==
    /\ \E S \in LosEdgeChoices :
          graph = [nodes |-> LosNodes,
                   node  |-> [i \in 1..LosNodeCount |->
                                [x |-> LosXY[i][1], y |-> LosXY[i][2]]],
                   edges |-> S,
                   graph |-> <<>>]
    /\ los_buildings \in LosBuildingChoices
    /\ max_distance \in {30, 50}
    /\ graph_before = graph
    /\ graph_prev = graph
    /\ runs = 0
    /\ FnIdle
    /\ MainIdle
    /\ VehsIdle

\* One call add_edges_if_los(graph, buildings, max_distance).
RunAddEdges ==
    /\ runs < MaxRuns
    /\ graph' = add_edges_if_los(graph, los_buildings, max_distance)
    /\ graph_prev' = graph
    /\ runs' = runs + 1
    /\ UNCHANGED <<los_buildings, max_distance, graph_before, fnVars, mainVars, vehVars>>

LosNext == RunAddEdges

SpecLos == LosInit /\ [][LosNext]_vars

-----------------------------------------------------------------------------
(* Claims on add_edges_if_los *)

\* The straight segment between two intersections meets no footprint.
NodeXY(g, n) == <<g.node[n].x, g.node[n].y>>

ClearOfBuildings(g, a, b) ==
    \A r \in SeqRange(los_buildings) : ~SegIntersectsRect(NodeXY(g, a), NodeXY(g, b), r)

\* C1: after a run, every pair of distinct intersections that was not
\* adjacent before it is joined iff the two are at most max_distance apart
\* (boundary included) and the segment between them meets no footprint; the
\* edge added is single, as long as the distance, and is the straight segment.
C1_LosEdgesExact ==
    runs >= 1 =>
      \A a \in SeqRange(graph.nodes) : \A b \in SeqRange(graph.nodes) :
        (a # b /\ ~has_edge(graph_prev, a, b)) =>
          /\ has_edge(graph, a, b) <=>
                /\ DistSq(NodeXY(graph, a), NodeXY(graph, b)) <= max_distance * max_distance
                /\ ClearOfBuildings(graph, a, b)
          /\ Cardinality(EdgesBetween(graph, a, b)) <= 1
          /\ \A e \in EdgesBetween(graph, a, b) :
                /\ e.length = Norm(NodeXY(graph, a), NodeXY(graph, b))
                /\ e.geometry = <<Vtx(NodeXY(graph, e.u)), Vtx(NodeXY(graph, e.v))>>
                /\ Len(e.geometry) = 2

\* A run that added an edge at exactly max_distance, refused a pair in range
\* because of a footprint, and refused a clear pair out of range.
C1_Witness ==
    /\ runs = 1
    /\ \E a, b \in SeqRange(graph.nodes) :
          /\ ~has_edge(graph_prev, a, b) /\ has_edge(graph, a, b)
          /\ DistSq(NodeXY(graph, a), NodeXY(graph, b)) = max_distance * max_distance
    /\ \E a, b \in SeqRange(graph.nodes) :
          /\ a # b /\ ~has_edge(graph, a, b)
          /\ DistSq(NodeXY(graph, a), NodeXY(graph, b)) <= max_distance * max_distance
          /\ ~ClearOfBuildings(graph, a, b)
    /\ \E a, b \in SeqRange(graph.nodes) :
          /\ a # b /\ ~has_edge(graph, a, b)
          /\ DistSq(NodeXY(graph, a), NodeXY(graph, b)) > max_distance * max_distance
          /\ ClearOfBuildings(graph, a, b)

\* C2: a second run on the same graph, footprints and max_distance leaves
\* the graph as the first run left it: no edge added, none duplicated, no
\* attribute of an edge changed.
C2_Idempotent == runs >= 2 => graph = graph_prev

\* A second run after a first run that did add edges.
C2_Witness ==
    /\ runs = 2
    /\ graph_prev.edges # graph_before.edges
    /\ graph_before.edges # {}

-----------------------------------------------------------------------------
(* SpecNlos: veh_cons_are_nlos on bounded points and footprints *)

\* Number of other vehicles handed to one call.
MaxNlosVehs == 2

NlosPoints == SeqRange(LosXY) \cup {<<15, 20>>, <<30, 15>>}

RECURSIVE Orderings(_)
\* Every ordering of every subset of S, as a sequence.
Orderings(S) ==
    {<<>>} \cup UNION {{<<x>> \o t : t \in Orderings(S \ {x})} : x \in S}

PointSeqs(n) == UNION {[1..k -> NlosPoints] : k \in 1..n}

NlosInit ==
    /\ \E own \in NlosPoints, vehs \in PointSeqs(MaxNlosVehs),
            blds \in Orderings(SeqRange(LosFootprints)) :
          args = [point_own |-> own, point_vehs |-> vehs, buildings |-> blds]
    /\ ret = NotCalled
    /\ LosIdle
    /\ MainIdle
    /\ VehsIdle

Call_veh_cons_are_nlos ==
    /\ ret = NotCalled
    /\ ret' = [kind |-> "returned",
                is_nlos |-> veh_cons_are_nlos(args.point_own, args.point_vehs,
                                              args.buildings)]
    /\ UNCHANGED <<args, losVars, vehVars, mainVars>>

NlosNext == Call_veh_cons_are_nlos

SpecNlos == NlosInit /\ [][NlosNext]_vars

\* C5: the obstruction boolean of (A, B) is the one of (B, A), it is the
\* same under every order of the footprints, and it is true iff the segment
\* A-B meets at least one footprint.
C5_NlosSymmetric ==
    ret.kind = "returned" =>
      \A i \in 1..Len(args.point_vehs) :
        LET A == args.point_own
            B == args.point_vehs[i]
        IN  /\ ret.is_nlos[i] = veh_cons_are_nlos(B, <<A>>, args.buildings)[1]
            /\ \A q \in Orderings(SeqRange(args.buildings)) :
                  Len(q) = Len(args.buildings) =>
                    ret.is_nlos[i] = veh_cons_are_nlos(A, <<B>>, q)[1]
            /\ ret.is_nlos[i] <=>
                  \E r \in SeqRange(args.buildings) : SegIntersectsRect(A, B, r)

\* A call with three footprints of which only the first is met for one
\* vehicle, and none for another.
C5_Witness ==
    /\ ret.kind = "returned"
    /\ Len(args.buildings) = 3
    /\ Len(args.point_vehs) = 2
    /\ ret.is_nlos[1] /\ ~ret.is_nlos[2]
    /\ SegIntersectsRect(args.point_own, args.point_vehs[1], args.buildings[1])
    /\ ~SegIntersectsRect(args.point_own, args.point_vehs[1], args.buildings[2])
    /\ ~SegIntersectsRect(args.point_own, args.point_vehs[1], args.buildings[3])

-----------------------------------------------------------------------------
(* SpecSplit: split_line_at_point on bounded lines and points *)

SplitLines ==
    { <<(<<0, 0, 0>>), (<<40, 0, 0>>)>>,
      <<(<<0, 0, 0>>), (<<20, 0, 0>>), (<<20, 20, 0>>)>>,
      <<(<<40, 30, 0>>), (<<0, 0, 0>>)>>,
      <<(<<0, 20, 0>>), (<<0, 0, 0>>), (<<20, 0, 0>>), (<<40, 0, 0>>)>> }

SplitPoints ==
    {<<x, y, d>> : x \in {0, 10, 20, 40}, y \in {0, 10, 15, 20},
                   d \in {0, SplitTolerance - 1, SplitTolerance, SplitTolerance + 1}}

SplitInit ==
    /\ \E line \in SplitLines, point \in SplitPoints :
          args = [line |-> line, point |-> point]
    /\ ret = NotCalled
    /\ LosIdle
    /\ MainIdle
    /\ VehsIdle

Call_split_line_at_point ==
    /\ ret = NotCalled
    /\ ret' = split_line_at_point(args.line, args.point)
    /\ UNCHANGED <<args, losVars, vehVars, mainVars>>

SplitNext == Call_split_line_at_point

SpecSplit == SplitInit /\ [][SplitNext]_vars

\* The point of the call is further than the tolerance from the line: its
\* lattice point is off the line, or its own offset exceeds the tolerance.
FurtherThanTolerance ==
    \/ ~OnLine(args.line, XY(args.point))
    \/ args.point[3] > SplitTolerance

RaisedValueError == ret.kind = "raised" /\ ret.error = "ValueError"

\* C9: split_line_at_point fails with the 'Point not on line' error, and
\* returns no sub-segments, whenever the point is further than 1e-8 from the
\* line; a point at 1e-8 or nearer does not raise that error.
C9_SplitOffLineRaises ==
    ret # NotCalled => (RaisedValueError <=> FurtherThanTolerance)

\* A call that raised the error for a point just beyond the tolerance.
C9_Witness ==
    /\ RaisedValueError
    /\ OnLine(args.line, XY(args.point))
    /\ args.point[3] = SplitTolerance + 1

-----------------------------------------------------------------------------
(* Classification of the other vehicles: find_center_veh,                   *)
(* line_intersects_points, veh_cons_are_olos and the masks of main_test     *)

\* np.amin / np.amax of a sequence.
amin(s) == CHOOSE m \in SeqRange(s) : \A n \in SeqRange(s) : m <= n

amax(s) == CHOOSE m \in SeqRange(s) : \A n \in SeqRange(s) : m >= n

\* find_center_veh: the index (from 0) of the first vehicle nearest to the
\* centre of the bounding box; distances are compared as squares of twice
\* the distance.
find_center_veh(coords_x, coords_y) ==
    LET sum_x == amin(coords_x) + amax(coords_x)
        sum_y == amin(coords_y) + amax(coords_y)
        d(i)  == (2 * coords_x[i] - sum_x) * (2 * coords_x[i] - sum_x)
                 + (2 * coords_y[i] - sum_y) * (2 * coords_y[i] - sum_y)
        n     == Len(coords_x)
    IN  (CHOOSE i \in 1..n :
            /\ \A j \in 1..n : d(i) <= d(j)
            /\ \A j \in 1..(i - 1) : d(j) > d(i)) - 1

\* a[mask]: the elements of a where the mask is True, in order.
Compress(a, mask) ==
    LET kept == {i \in 1..Len(a) : mask[i]}
        nth(k) == CHOOSE i \in kept : Cardinality({j \in kept : j < i}) = k - 1
    IN  [k \in 1..Cardinality(kept) |-> a[nth(k)]]

\* A slip: the mask is handed on as it is.
InvertNot(mask) == [i \in 1..Len(mask) |-> mask[i]]

\* np.invert of a boolean array.
Invert(mask) == [i \in 1..Len(mask) |-> ~mask[i]]

\* (proj > 0) and (proj < line.length) for the segment a-b: the nearest
\* point of the segment is neither of its ends.
PointInRoi(a, b, point) ==
    LET dot == (b[1] - a[1]) * (point[1] - a[1]) + (b[2] - a[2]) * (point[2] - a[2])
    IN  dot > 0 /\ dot < DistSq(a, b)

\* line.distance(point) < margin for the segment a-b.
DistanceSmall(a, b, point, margin) ==
    LET dot == (b[1] - a[1]) * (point[1] - a[1]) + (b[2] - a[2]) * (point[2] - a[2])
    IN  IF dot <= 0 THEN DistSq(a, point) < margin * margin
        ELSE IF dot >= DistSq(a, b) THEN DistSq(b, point) < margin * margin
        ELSE Cross(a, b, point) * Cross(a, b, point) < margin * margin * DistSq(a, b)

RECURSIVE PointsFrom(_, _, _, _)
\* The loop of line_intersects_points from point i on.
PointsFrom(line, pts, margin, i) ==
    IF i > Len(pts) THEN FALSE
    ELSE IF PointInRoi(line[1], line[2], pts[i])
            /\ DistanceSmall(line[1], line[2], pts[i], margin) THEN TRUE
    ELSE PointsFrom(line, pts, margin, i + 1)

line_intersects_points(line, pts, margin) == PointsFrom(line, pts, margin, 1)

\* veh_cons_are_olos: for every vehicle handed in, whether one of the other
\* vehicles handed in stands in the line to it.
veh_cons_are_olos(point_own, point_vehs, margin) ==
    [index \in 1..Len(point_vehs) |->
        line_intersects_points(
            <<point_own, point_vehs[index]>>,
            Compress(point_vehs, [i \in 1..Len(point_vehs) |-> i # index]),
            margin)]

-----------------------------------------------------------------------------
(* The street network of the runs: intersections 30 m apart, three streets  *)
(* in a row and two side streets; a block of houses and a narrow house      *)

StreetNodes == <<"a", "b", "c", "g", "e", "f">>

StreetXY ==
    [n \in SeqRange(StreetNodes) |->
        CASE n = "a" -> [x |-> 0, y |-> 0]
          [] n = "b" -> [x |-> 30, y |-> 0]
          [] n = "c" -> [x |-> 60, y |-> 0]
          [] n = "g" -> [x |-> 90, y |-> 0]
          [] n = "e" -> [x |-> 30, y |-> 30]
          [] n = "f" -> [x |-> 60, y |-> 30]]

\* data['streets'] as loaded: the streets in a row come with their
\* geometry, the side streets without.
StreetsLoaded ==
    [nodes |-> StreetNodes,
     node  |-> StreetXY,
     edges |-> { [u |-> "a", v |-> "b", key |-> 0, length |-> 3000,
                  geometry |-> <<(<<0, 0, 0>>), (<<30, 0, 0>>)>>],
                 [u |-> "b", v |-> "c", key |-> 0, length |-> 3000,
                  geometry |-> <<(<<30, 0, 0>>), (<<60, 0, 0>>)>>],
                 [u |-> "c", v |-> "g", key |-> 0, length |-> 3000,
                  geometry |-> <<(<<60, 0, 0>>), (<<90, 0, 0>>)>>],
                 [u |-> "b", v |-> "e", key |-> 0, length |-> 3000],
                 [u |-> "c", v |-> "f", key |-> 0, length |-> 3000] },
     graph |-> <<>>]

\* data['buildings']
Footprints == <<(<<38, 8, 50, 28>>), (<<58, 2, 59, 10>>)>>

\* The values np.random.random() may return, as fractions: [0, 1).
RandomDraws == {<<0, 15>>, <<1, 15>>, <<10, 15>>}

\* The place of a node in graph.nodes().
NodeIndex(g, n) == CHOOSE i \in 1..Len(g.nodes) : g.nodes[i] = n

\* graph.edges(data=True): the edges by first end, second end and key.
edges_list(g) ==
    LET before(e, f) ==
            \/ NodeIndex(g, e.u) < NodeIndex(g, f.u)
            \/ e.u = f.u /\ NodeIndex(g, e.v) < NodeIndex(g, f.v)
            \/ e.u = f.u /\ e.v = f.v /\ e.key < f.key
        nth(k) == CHOOSE e \in g.edges :
                      Cardinality({f \in g.edges : before(f, e)}) = k - 1
    IN  [k \in 1..Cardinality(g.edges) |-> nth(k)]

\* A slip: the loop leaves every edge as it is.
add_geometry_noop(g) == g

\* add_geometry: an edge without geometry gets the straight line between
\* its ends.
add_geometry(g) ==
    [g EXCEPT !.edges =
        {IF "geometry" \in DOMAIN data THEN data
         ELSE data @@ [geometry |-> LineString2(<<g.node[data.u].x, g.node[data.u].y>>,
                                                <<g.node[data.v].x, g.node[data.v].y>>)]
         : data \in g.edges}]

\* check_geometry: complete unless some edge has no geometry.
check_geometry(g) == \A data \in g.edges : "geometry" \in DOMAIN data

\* streets.to_undirected(): of two opposite edges with one key, the one of
\* the later first end stays.
to_undirected(g) ==
    [g EXCEPT !.edges =
        {e \in g.edges :
            ~\E f \in g.edges : /\ f.u = e.v /\ f.v = e.u /\ f.key = e.key /\ f.u # f.v
                                 /\ NodeIndex(g, f.u) > NodeIndex(g, e.u)}]

\* The default of max_distance of add_edges_if_los, in metres.
DefaultMaxDistance == 50

\* The margin main_test hands to veh_cons_are_olos.
Margin == 2

\* streets.edges(data=True) once add_geometry has run.
StreetEdges == edges_list(add_geometry(StreetsLoaded))

-----------------------------------------------------------------------------
(* SpecPlace: generate_vehs on the streets, for every choice of streets and *)
(* every random draw                                                        *)

\* Number of vehicles one call of generate_vehs places.
MaxPlaceVehs == 2

PlaceInit ==
    /\ \E k \in 1..MaxPlaceVehs :
         \E idxs \in [1..k -> 1..Len(StreetEdges)], draws \in [1..k -> RandomDraws] :
            args = [graph_streets |-> StreetEdges, street_idxs |-> idxs, draws |-> draws]
    /\ ret = NotCalled
    /\ LosIdle
    /\ MainIdle
    /\ VehsIdle

Call_generate_vehs ==
    /\ ret = NotCalled
    /\ ret' = generate_vehs(args.graph_streets, args.street_idxs, args.draws)
    /\ UNCHANGED <<args, losVars, vehVars, mainVars>>

PlaceNext == Call_generate_vehs

SpecPlace == PlaceInit /\ [][PlaceNext]_vars

\* The local graph of vehicle i of a returned call is the one of the claim:
\* the vehicle node with its point and coordinates, both ends of the street,
\* and exactly two edges, to the first end with the part of the street
\* before the vehicle and to the second with the part after it, each with
\* the length of its part.
LocalGraphAsClaimed(i) ==
    LET g      == ret.vehs.graphs[i]
        street == args.graph_streets[args.street_idxs[i]]
        node   == VehName[i]
        pt     == ret.vehs.points[i]
    IN  /\ SeqRange(g.nodes) = {node, street.u, street.v}
        /\ g.node[node] = [geometry |-> pt, x |-> pt[1], y |-> pt[2]]
        /\ Cardinality(g.edges) = 2
        /\ \E e1, e2 \in g.edges :
              /\ e1 # e2
              /\ e1.u = node /\ e1.v = street.u
              /\ e2.u = node /\ e2.v = street.v
              /\ XY(e1.geometry[1]) = XY(street.geometry[1])
              /\ XY(e1.geometry[Len(e1.geometry)]) = XY(pt)
              /\ XY(e2.geometry[1]) = XY(pt)
              /\ XY(e2.geometry[Len(e2.geometry)]) = XY(street.geometry[Len(street.geometry)])
              /\ e1.length = LineLength(e1.geometry)
              /\ e2.length = LineLength(e2.geometry)
              /\ e1.length + e2.length = LineLength(street.geometry)

\* C10: for every street and every position in [0, 1], ends included,
\* placement succeeds and yields the local graph of the claim.
C10_PlacementSucceeds ==
    ret # NotCalled =>
      /\ ret.kind = "returned"
      /\ \A i \in 1..Len(args.street_idxs) : LocalGraphAsClaimed(i)

\* What the code does: a position strictly inside the street is placed as
\* claimed, and a vehicle drawn at position 0 ends the call with IndexError.
PlacementInsideOnly ==
    ret # NotCalled =>
      IF \E i \in 1..Len(args.draws) : args.draws[i][1] = 0
      THEN ret.kind = "raised" /\ ret.error = "IndexError"
      ELSE /\ ret.kind = "returned"
           /\ \A i \in 1..Len(args.street_idxs) : LocalGraphAsClaimed(i)

-----------------------------------------------------------------------------
(* SpecRoute: check_if_cons_orthogonal on the street network with its       *)
(* visibility edges, for bounded choices of the vehicles                    *)

\* Number of other vehicles handed to one call.
MaxRouteVehs == 2

\* streets_wave as main_test builds it.
WaveGraph(blds) ==
    add_edges_if_los(to_undirected(add_geometry(StreetsLoaded)), blds, DefaultMaxDistance)

StreetsWave == WaveGraph(Footprints)

\* A graph that names an intersection as its vehicle node.
NodeGraph(n) ==
    [nodes |-> <<n>>, node |-> (n :> StreetXY[n]), edges |-> {},
     graph |-> [node_veh |-> n]]

\* The local graphs vehicle number it may have: placed inside a street, or
\* standing on an intersection.
RouteGraphs(it) ==
    {PlaceVeh(StreetEdges[sp[1]], <<sp[2], 15>>, it).graph :
        sp \in IF it = 0 THEN {<<3, 10>>, <<2, 5>>, <<1, 1>>}
                ELSE {<<k, 10>> : k \in 1..Len(StreetEdges)}}
    \cup {NodeGraph(IF it = 0 THEN "b" ELSE "c")}

\* A town of two parts: no street joins b and c, and a long block of houses
\* stands between the parts.
StreetsSplit ==
    [StreetsLoaded EXCEPT !.edges = {e \in @ : ~(e.u = "b" /\ e.v = "c")}]

Wall == <<(<<35, -5, 55, 35>>)>>

\* streets_wave as main_test builds it for the town of two parts.
WaveSplit ==
    add_edges_if_los(to_undirected(add_geometry(StreetsSplit)), Wall, DefaultMaxDistance)

\* A town with two streets from b to c: the older one, in a bend around a
\* square, and the straight one.
StreetsParallel ==
    [StreetsLoaded EXCEPT !.edges =
        {e \in @ : ~(e.u = "b" /\ e.v = "c")}
        \cup { [u |-> "b", v |-> "c", key |-> 0, length |-> 5000,
                 geometry |-> <<(<<30, 0, 0>>), (<<30, -10, 0>>),
                                (<<60, -10, 0>>), (<<60, 0, 0>>)>>],
                [u |-> "b", v |-> "c", key |-> 1, length |-> 3000,
                 geometry |-> <<(<<30, 0, 0>>), (<<60, 0, 0>>)>>] }]

\* streets_wave as main_test builds it for the town with the two streets.
WaveParallel ==
    add_edges_if_los(to_undirected(add_geometry(StreetsParallel)), Footprints,
                     DefaultMaxDistance)

\* The towns of the calls: streets_wave, the values of max_angle and the
\* intersections between which the vehicles stand.
RouteTowns ==
    { [wave |-> StreetsWave, max_angles |-> {PI, PI \div 2},
       quarter |-> SeqRange(StreetNodes)],
      [wave |-> WaveSplit, max_angles |-> {PI},
       quarter |-> SeqRange(StreetNodes)],
      [wave |-> WaveParallel, max_angles |-> {PI},
       quarter |-> {"a", "b", "c", "g"}] }

\* The local graph of a vehicle that stands on a street of the town, or on
\* one of its intersections, within the quarter.
StandsOn(graph_v, town) ==
    /\ SeqRange(graph_v.nodes) \ {graph_v.graph.node_veh} \subseteq town.quarter
    /\ \/ graph_v.edges = {}
       \/ \E e \in town.wave.edges :
             SeqRange(graph_v.nodes) \ {graph_v.graph.node_veh} = {e.u, e.v}

\* The local graph of RouteGraphs(it), it > 0, for the street number k, or
\* for the intersection when k is 0.
OtherGraph(it, k) ==
    IF k = 0 THEN NodeGraph("c")
    ELSE PlaceVeh(StreetEdges[k], <<10, 15>>, it).graph

RouteInit ==
    /\ \E k \in 1..MaxRouteVehs, town \in RouteTowns :
          \E own \in RouteGraphs(0), pick \in [1..k -> 0..Len(StreetEdges)],
             max_angle \in {PI, PI \div 2} :
            /\ max_angle \in town.max_angles
            /\ \A i \in 1..k : StandsOn(OtherGraph(i, pick[i]), town)
            /\ StandsOn(own, town)
            /\ streets_wave = town.wave
            /\ graphs_veh = <<own>> \o [i \in 1..k |-> OtherGraph(i, pick[i])]
            /\ args = [streets_wave |-> streets_wave, graphs_veh |-> graphs_veh,
                       max_angle |-> max_angle]
    /\ ret = NotCalled
    /\ LosIdle
    /\ pc = "idle"
    /\ streets = EmptyGraph
    /\ buildings = <<>>
    /\ rand_index = <<>>
    /\ points = <<>>
    /\ index_center_veh = -1
    /\ is_nlos = <<>>
    /\ is_olos = <<>>
    /\ orth = NotCalled
    /\ pathlosses = <<>>
    /\ index_in_range = <<>>
    /\ VehsIdle

\* One call check_if_cons_orthogonal(streets_wave, graphs_veh[0],
\* graphs_veh[1:], max_angle).
Call_check_if_cons_orthogonal ==
    /\ ret = NotCalled
    /\ \E out \in check_if_cons_orthogonal(streets_wave, Head(graphs_veh),
                                            Tail(graphs_veh), args.max_angle) :
          /\ ret' = out.ret
          /\ streets_wave' = out.objects.streets_wave
          /\ graphs_veh' = <<out.objects.graph_veh_own>> \o out.objects.graphs_veh_other
    /\ UNCHANGED <<args, losVars, vehVars, plVars, pc, streets, buildings, rand_index, points,
                   index_center_veh, is_nlos, is_olos, orth>>

RouteNext == Call_check_if_cons_orthogonal

SpecRoute == RouteInit /\ [][RouteNext]_vars

\* The angle between the directions u and v, without its sign.
TurnAngle(u, v) == Abs(arctan2(u[1] * v[2] - u[2] * v[1], u[1] * v[1] + u[2] * v[2]))

RECURSIVE TurnSumFrom(_, _)
\* The sum of the turns at the inner vertices of a route from vertex i on.
TurnSumFrom(coords, i) ==
    IF i >= Len(coords) THEN 0
    ELSE TurnAngle(<<coords[i][1] - coords[i - 1][1], coords[i][2] - coords[i - 1][2]>>,
                   <<coords[i + 1][1] - coords[i][1], coords[i + 1][2] - coords[i][2]>>)
         + TurnSumFrom(coords, i + 1)

TurnSum(coords) == TurnSumFrom(coords, 2)

\* C6: every pair the call decided is marked orthogonal iff the turns along
\* its route sum to strictly less than max_angle; a sum equal to max_angle
\* makes the pair parallel.
C6_OrthogonalIffSumBelow ==
    ret # NotCalled =>
      \A i \in 1..Len(ret.is_orthogonal) :
        ret.is_orthogonal[i] <=> TurnSum(ret.route[i].coords) < args.max_angle

\* A call under the default max_angle that found one route with two
\* 90-degree corners, marked parallel, and one with a single corner, marked
\* orthogonal.
C6_Witness ==
    /\ ret.kind = "returned"
    /\ args.max_angle = PI
    /\ \E i, j \in 1..Len(ret.is_orthogonal) :
          /\ ~ret.is_orthogonal[i]
          /\ TurnSum(ret.route[i].coords) = PI
          /\ Len(ret.route[i].coords) = 4
          /\ ret.is_orthogonal[j]
          /\ TurnSum(ret.route[j].coords) = PI \div 2

\* C7: a route of fewer than three vertices does not make the call raise;
\* its pair is marked orthogonal.
C7_ShortRouteTrivial ==
    ret # NotCalled =>
      \A i \in 1..Len(ret.route) :
        (ret.route[i].type = "LineString" /\ Len(ret.route[i].coords) < 3) =>
          /\ ~(ret.kind = "raised" /\ ret.index = i - 1)
          /\ i <= Len(ret.is_orthogonal)
          /\ ret.is_orthogonal[i]

\* What the code does with a route of fewer than three vertices: the call
\* raises ValueError at that route.
ShortRouteRaises ==
    ret # NotCalled =>
      \A i \in 1..Len(ret.route) :
        (ret.route[i].type = "LineString" /\ Len(ret.route[i].coords) < 3) =>
          /\ ret.kind = "raised" /\ ret.error = "ValueError" /\ ret.index = i - 1

\* C8: whether the call returned or raised, streets_wave and every local
\* graph handed in are as they were before the call: nodes, edges and
\* attributes.
C8_GraphsNotMutated ==
    ret # NotCalled =>
      /\ streets_wave = args.streets_wave
      /\ graphs_veh = args.graphs_veh

\* A call for two other vehicles placed inside streets, from a vehicle
\* placed inside a street, that returned.
C8_Witness ==
    /\ ret.kind = "returned"
    /\ Len(ret.is_orthogonal) = 2
    /\ \A i \in 1..3 : graphs_veh[i].edges # {}
    /\ streets_wave.edges # {}

RECURSIVE ReachFrom(_, _, _)
\* The nodes a walk of at most k more edges of g reaches from the nodes S.
ReachFrom(g, S, k) ==
    LET T == S \cup UNION {Neighbours(g, n) : n \in S}
    IN  IF k = 0 \/ T = S THEN S ELSE ReachFrom(g, T, k - 1)

\* The working graph of the pair (own vehicle, other vehicle i) of the
\* call: the union of streets_wave and the two local graphs.
WorkingGraph(i) ==
    ComposeGraph(args.graphs_veh[i + 1],
                 ComposeGraph(args.graphs_veh[1], args.streets_wave))

\* No walk in the working graph of pair i joins the two vehicle nodes.
NoConnectingPath(i) ==
    LET g == WorkingGraph(i)
    IN  args.graphs_veh[i + 1].graph.node_veh
            \notin ReachFrom(g, {args.graphs_veh[1].graph.node_veh}, Len(g.nodes))

\* C11: when the two vehicle nodes of a pair have no connecting path in
\* the working graph, the call raises at that pair at the latest, with
\* NetworkXNoPath when it got as far as that pair, and hands out no
\* orthogonal/parallel flag and no relay coordinate for it.
C11_NoPathRaises ==
    ret # NotCalled =>
      \A i \in 1..(Len(args.graphs_veh) - 1) :
        NoConnectingPath(i) =>
          /\ ret.kind = "raised"
          /\ ret.index <= i - 1
          /\ ret.index = i - 1 => ret.error = "NetworkXNoPath"
          /\ Len(ret.is_orthogonal) < i
          /\ Len(ret.coords_max_angle) < i

\* A call whose first pair was routed and decided and whose second pair
\* has no connecting path: it raised NetworkXNoPath at the second pair.
C11_Witness ==
    /\ ret.kind = "raised"
    /\ ret.error = "NetworkXNoPath"
    /\ ret.index = 1
    /\ Len(ret.is_orthogonal) = 1
    /\ NoConnectingPath(2)
    /\ ~NoConnectingPath(1)

-----------------------------------------------------------------------------
(* Spec: a run of main_test from the loaded data to the classification of   *)
(* every other vehicle                                                      *)

\* count_veh of the runs.
CountVeh == 4

\* The streets np.random.choice may pick for the vehicles; the runs take
\* the picks in which the streets come in the order of streets.edges().
StreetChoices ==
    {idx \in [1..CountVeh -> 1..Len(StreetEdges)] :
        \A i \in 1..(CountVeh - 1) : idx[i] <= idx[i + 1]}

Init ==
    /\ pc = "loaded"
    /\ streets = StreetsLoaded
    /\ buildings \in {Footprints, <<Footprints[1]>>}
    /\ streets_wave = EmptyGraph
    /\ rand_index = <<>>
    /\ points = <<>>
    /\ graphs_veh = <<>>
    /\ index_center_veh = -1
    /\ is_nlos = <<>>
    /\ is_olos = <<>>
    /\ orth = NotCalled
    /\ pathlosses = <<>>
    /\ index_in_range = <<>>
    /\ LosIdle
    /\ FnIdle
    /\ VehsIdle

\* add_geometry(streets)
AddGeometry ==
    /\ pc = "loaded"
    /\ streets' = add_geometry(streets)
    /\ pc' = "geometry"
    /\ UNCHANGED <<buildings, streets_wave, rand_index, points, graphs_veh,
                   index_center_veh, is_nlos, is_olos, orth, losVars, vehVars, plVars, fnVars>>

\* streets_wave = streets.to_undirected(); add_edges_if_los(streets_wave, buildings)
BuildWave ==
    /\ pc = "geometry"
    /\ streets_wave' = add_edges_if_los(to_undirected(streets), buildings, DefaultMaxDistance)
    /\ pc' = "wave"
    /\ UNCHANGED <<streets, buildings, rand_index, points, graphs_veh,
                   index_center_veh, is_nlos, is_olos, orth, losVars, vehVars, plVars, fnVars>>

\* rand_index = choose_random_streets(street_lengths, count_veh)
ChooseStreets ==
    /\ pc = "wave"
    /\ rand_index' \in StreetChoices
    /\ pc' = "placing"
    /\ UNCHANGED <<streets, buildings, streets_wave, points, graphs_veh,
                   index_center_veh, is_nlos, is_olos, orth, losVars, vehVars, plVars, fnVars>>

\* One iteration of the loop that places the vehicles; an error of the
\* split ends the run.
PlaceStep ==
    /\ pc = "placing"
    /\ Len(points) < Len(rand_index)
    /\ \E pos \in RandomDraws :
          LET iteration == Len(points)
              placed    == PlaceVeh(edges_list(streets)[rand_index[iteration + 1]],
                                    pos, iteration)
          IN  IF placed.kind = "raised"
              THEN /\ pc' = "raised"
                   /\ ret' = placed
                   /\ UNCHANGED <<points, graphs_veh>>
              ELSE /\ points' = Append(points, placed.point)
                   /\ graphs_veh' = Append(graphs_veh, placed.graph)
                   /\ UNCHANGED <<pc, ret>>
    /\ UNCHANGED <<streets, buildings, streets_wave, rand_index,
                   index_center_veh, is_nlos, is_olos, orth, losVars, vehVars, plVars, args>>

\* index_center_veh = find_center_veh(x_coords, y_coords)
FindCenter ==
    /\ pc = "placing"
    /\ Len(points) = Len(rand_index)
    /\ index_center_veh' = find_center_veh([i \in 1..Len(points) |-> points[i][1]],
                                            [i \in 1..Len(points) |-> points[i][2]])
    /\ pc' = "center"
    /\ UNCHANGED <<streets, buildings, streets_wave, rand_index, points, graphs_veh,
                   is_nlos, is_olos, orth, losVars, vehVars, plVars, fnVars>>

\* index_other_vehs
OtherMask == [i \in 1..Len(points) |-> i # index_center_veh + 1]

\* points[index_other_vehs]
points_other_veh == Compress(points, OtherMask)

\* is_nlos = veh_cons_are_nlos(point_center_veh, points_other_veh, buildings)
DetermineNlos ==
    /\ pc = "center"
    /\ is_nlos' = veh_cons_are_nlos(XY(points[index_center_veh + 1]),
                                     [i \in 1..Len(points_other_veh) |->
                                         XY(points_other_veh[i])],
                                     buildings)
    /\ pc' = "nlos"
    /\ UNCHANGED <<streets, buildings, streets_wave, rand_index, points, graphs_veh,
                   index_center_veh, is_olos, orth, losVars, vehVars, plVars, fnVars>>

\* is_olos = veh_cons_are_olos(point_center_veh, points_olos_los, margin=2)
DetermineOlos ==
    /\ pc = "nlos"
    /\ LET is_olos_los     == Invert(is_nlos)
           points_olos_los == Compress(points_other_veh, is_olos_los)
       IN  is_olos' = veh_cons_are_olos(XY(points[index_center_veh + 1]),
                                        [i \in 1..Len(points_olos_los) |->
                                            XY(points_olos_los[i])],
                                        Margin)
    /\ pc' = "olos"
    /\ UNCHANGED <<streets, buildings, streets_wave, rand_index, points, graphs_veh,
                   index_center_veh, is_nlos, orth, losVars, vehVars, plVars, fnVars>>

\* is_orthogonal, coords_intersections = check_if_cons_orthogonal(streets_wave,
\* graph_veh_own, graphs_veh_nlos, max_angle=np.pi); an error ends the run.
DetermineOrth ==
    /\ pc = "olos"
    /\ LET graphs_veh_nlos == Compress(Compress(graphs_veh, OtherMask), is_nlos)
           graph_veh_own   == graphs_veh[index_center_veh + 1]
       IN  \E out \in check_if_cons_orthogonal(streets_wave, graph_veh_own,
                                                graphs_veh_nlos, PI) :
              /\ orth' = out.ret
              /\ streets_wave' = out.objects.streets_wave
              /\ pc' = IF out.ret.kind = "raised" THEN "raised" ELSE "done"
              /\ ret' = IF out.ret.kind = "raised"
                        THEN [kind |-> "raised", error |-> out.ret.error]
                        ELSE ret
    /\ UNCHANGED <<streets, buildings, rand_index, points, graphs_veh,
                   index_center_veh, is_nlos, is_olos, losVars, vehVars, plVars, args>>

\* np.Infinity
Infinity == [fn |-> "Infinity", distances |-> <<>>, sign |-> 1]

\* The value a method of the Pathloss object returns for one vehicle, kept
\* as the method called and the distances handed to it.
PathlossCall(fn, distances) == [fn |-> fn, distances |-> distances, sign |-> 1]

\* -pathlosses_olos_los
Negative(a) == [i \in 1..Len(a) |-> [a[i] EXCEPT !.sign = -@]]

\* np.zeros(n)
Zeros(n) == [i \in 1..n |-> [fn |-> "zeros", distances |-> <<>>, sign |-> 1]]

\* a[mask] = values
Assign(a, mask, values) ==
    [i \in 1..Len(a) |->
        IF mask[i] THEN values[Cardinality({j \in 1..i : mask[j]})] ELSE a[i]]

\* np.sum of a boolean array
CountTrue(mask) == Cardinality({i \in 1..Len(mask) : mask[i]})

\* A slip: the parallel vehicles keep the zeros of np.zeros.
ParallelPathlossesZeros(count) == Zeros(count)

\* np.Infinity*np.ones(np.sum(is_paralell))
ParallelPathlosses(count) == [i \in 1..count |-> Infinity]

\* The pathlosses of the other vehicles: pathloss_olos / pathloss_los of the
\* distance to the centre vehicle, pathloss_nlos of the two distances to
\* the intersection, np.Infinity for the parallel ones.
DeterminePathloss ==
    /\ pc = "done"
    /\ LET center  == XY(points[index_center_veh + 1])
           others  == [i \in 1..Len(points_other_veh) |-> XY(points_other_veh[i])]
           is_olos_los == Invert(is_nlos)
           is_los      == Invert(is_olos)
           coords_olos_los    == Compress(others, is_olos_los)
           distances_olos_los == [i \in 1..Len(coords_olos_los) |->
                                     Norm(coords_olos_los[i], center)]
           distances_olos  == Compress(distances_olos_los, is_olos)
           distances_los   == Compress(distances_olos_los, is_los)
           pathlosses_olos == [i \in 1..Len(distances_olos) |->
                                  PathlossCall("pathloss_olos", <<distances_olos[i]>>)]
           pathlosses_los  == [i \in 1..Len(distances_los) |->
                                  PathlossCall("pathloss_los", <<distances_los[i]>>)]
           pathlosses_olos_los ==
               Assign(Assign(Zeros(Len(distances_olos_los)), is_olos, pathlosses_olos),
                      is_los, pathlosses_los)
           is_orthogonal == orth.is_orthogonal
           is_paralell   == Invert(is_orthogonal)
           coords_orth   == Compress(Compress(others, is_nlos), is_orthogonal)
           coords_intersections == Compress(orth.coords_max_angle, is_orthogonal)
           distances_orth_tx == [i \in 1..Len(coords_orth) |->
                                    Norm(coords_orth[i], coords_intersections[i])]
           distances_orth_rx == [i \in 1..Len(coords_orth) |->
                                    Norm(center, coords_intersections[i])]
           pathlosses_orth == [i \in 1..Len(coords_orth) |->
                                  PathlossCall("pathloss_nlos",
                                               <<distances_orth_rx[i], distances_orth_tx[i]>>)]
           pathlosses_nlos ==
               Assign(Assign(Zeros(CountTrue(is_nlos)), is_paralell,
                             ParallelPathlosses(CountTrue(is_paralell))),
                      is_orthogonal, pathlosses_orth)
       IN  pathlosses' = Assign(Assign(Zeros(Len(points) - 1), is_olos_los,
                                       Negative(pathlosses_olos_los)),
                                is_nlos, pathlosses_nlos)
    /\ pc' = "pathloss"
    /\ UNCHANGED <<streets, buildings, streets_wave, rand_index, points, graphs_veh,
                   index_center_veh, is_nlos, is_olos, orth, index_in_range,
                   losVars, vehVars, fnVars>>

\* index_in_range = pathlosses < max_pl, for a finite max_pl; whether a
\* finite pathloss is below max_pl is open, one answer for one value.
\* Before it np.min(pathlosses[index_wo_inf]) fails for an empty selection.
DetermineInRange ==
    /\ pc = "pathloss"
    /\ LET index_wo_inf == [i \in 1..Len(pathlosses) |-> pathlosses[i] # Infinity]
           finite       == {pathlosses[i] : i \in {j \in 1..Len(pathlosses) : index_wo_inf[j]}}
       IN  IF finite = {}
           THEN /\ pc' = "raised"
                /\ ret' = [kind |-> "raised", error |-> "ValueError"]
                /\ UNCHANGED index_in_range
           ELSE /\ \E below \in [finite -> BOOLEAN] :
                      index_in_range' = [i \in 1..Len(pathlosses) |->
                                            index_wo_inf[i] /\ below[pathlosses[i]]]
                /\ pc' = "ranged"
                /\ UNCHANGED ret
    /\ UNCHANGED <<streets, buildings, streets_wave, rand_index, points, graphs_veh,
                   index_center_veh, is_nlos, is_olos, orth, pathlosses, losVars, vehVars, args>>

Next ==
    \/ AddGeometry
    \/ BuildWave
    \/ ChooseStreets
    \/ PlaceStep
    \/ FindCenter
    \/ DetermineNlos
    \/ DetermineOlos
    \/ DetermineOrth
    \/ DeterminePathloss
    \/ DetermineInRange

Spec == Init /\ [][Next]_vars

-----------------------------------------------------------------------------
(* Claims on the classification of a run *)

\* The vehicles other than the centre vehicle, by number (from 1), and the
\* four groups main_test cuts them into with its masks.
OtherIdx == Compress([i \in 1..Len(points) |-> i], OtherMask)

NlosIdx == Compress(OtherIdx, is_nlos)

OlosLosIdx == Compress(OtherIdx, Invert(is_nlos))

OlosIdx == Compress(OlosLosIdx, is_olos)

LosIdx == Compress(OlosLosIdx, Invert(is_olos))

OrthIdx == Compress(NlosIdx, orth.is_orthogonal)

ParIdx == Compress(NlosIdx, Invert(orth.is_orthogonal))

\* How often vehicle i stands in the group.
Occurrences(group, i) == Cardinality({k \in 1..Len(group) : group[k] = i})

\* C3: at the end of a run every vehicle other than the centre vehicle
\* stands in exactly one of the groups LOS, OLOS, NLOS-orthogonal and
\* NLOS-parallel, and there once.
C3_ClassificationPartition ==
    pc = "done" =>
      \A i \in 1..Len(points) :
        i # index_center_veh + 1 =>
          Occurrences(LosIdx, i) + Occurrences(OlosIdx, i)
            + Occurrences(OrthIdx, i) + Occurrences(ParIdx, i) = 1

\* A finished run with a LOS, an OLOS and a NLOS vehicle.
C3_Witness ==
    /\ pc = "done"
    /\ LosIdx # <<>>
    /\ OlosIdx # <<>>
    /\ NlosIdx # <<>>

\* Vehicle t stands in the line from the centre vehicle to vehicle v: its
\* projection falls strictly inside the segment and it is nearer to the
\* segment than the margin.
StandsBetween(t, v) ==
    /\ PointInRoi(XY(points[index_center_veh + 1]), XY(points[v]), XY(points[t]))
    /\ DistanceSmall(XY(points[index_center_veh + 1]), XY(points[v]), XY(points[t]), Margin)

\* C4: a building-clear vehicle is OLOS iff some vehicle other than it and
\* the centre vehicle, whatever its own condition, stands in the line to it.
C4_OlosIffVehicleBetween ==
    pc \in {"olos", "done"} =>
      \A k \in 1..Len(OlosLosIdx) :
        OlosLosIdx[k] \in SeqRange(OlosIdx) <=>
          \E t \in 1..Len(points) :
            /\ t # index_center_veh + 1
            /\ t # OlosLosIdx[k]
            /\ StandsBetween(t, OlosLosIdx[k])

\* What the code does: only the building-clear vehicles count as obstacles.
OlosIffClearVehicleBetween ==
    pc \in {"olos", "done"} =>
      \A k \in 1..Len(OlosLosIdx) :
        OlosLosIdx[k] \in SeqRange(OlosIdx) <=>
          \E t \in SeqRange(OlosLosIdx) :
            /\ t # OlosLosIdx[k]
            /\ StandsBetween(t, OlosLosIdx[k])

-----------------------------------------------------------------------------
(* The street graph during a run *)

\* The places of a run from which a classification or routing step is taken,
\* and those after them.
ReadingPhase == {"center", "nlos", "olos", "done", "pathloss", "ranged", "raised"}

\* C12: add_edges_if_los is over before the first classification or routing
\* step: no step taken once the classification has started adds an edge to
\* streets_wave (or changes the graph in any other way).
C12_WaveFrozenWhileRead ==
    [][(pc \in ReadingPhase /\ index_center_veh # -1) =>
          /\ streets_wave'.edges = streets_wave.edges
          /\ streets_wave' = streets_wave]_vars

\* A run that classified and routed its NLOS vehicles over a street graph
\* that holds visibility edges next to the streets.
C12_Witness ==
    /\ pc = "done"
    /\ orth.kind = "returned"
    /\ Len(orth.is_orthogonal) >= 1
    /\ Cardinality(streets_wave.edges) > Cardinality(streets.edges)
    /\ streets_wave = add_edges_if_los(to_undirected(streets), buildings, DefaultMaxDistance)

\* The edge of the loaded streets that e comes from.
LoadedEdge(e) ==
    CHOOSE l \in StreetsLoaded.edges : l.u = e.u /\ l.v = e.v /\ l.key = e.key

\* C13: once add_geometry(streets) has run, check_geometry(streets) is
\* True, an edge loaded without a geometry has the straight line between its
\* two ends, an edge loaded with one has that one; and once add_edges_if_los
\* has run, check_geometry(streets_wave) is True at every later place of the
\* run, the placement and the routing included.
C13_GeometryComplete ==
    /\ pc # "loaded" =>
          /\ check_geometry(streets)
          /\ \A e \in streets.edges :
                e.geometry =
                    IF "geometry" \in DOMAIN LoadedEdge(e) THEN LoadedEdge(e).geometry
                    ELSE <<(<<StreetXY[e.u].x, StreetXY[e.u].y, 0>>),
                           (<<StreetXY[e.v].x, StreetXY[e.v].y, 0>>)>>
    /\ pc \notin {"loaded", "geometry"} =>
          /\ check_geometry(streets_wave)
          /\ Cardinality(streets_wave.edges) >= Cardinality(streets.edges)

\* A run that has placed a vehicle on a street loaded without geometry,
\* with visibility edges in streets_wave.
C13_Witness ==
    /\ pc = "placing"
    /\ Len(points) >= 1
    /\ "geometry" \notin DOMAIN LoadedEdge(edges_list(streets)[rand_index[1]])
    /\ check_geometry(streets)
    /\ check_geometry(streets_wave)
    /\ \E e \in streets_wave.edges : ~\E l \in streets.edges : Joins(l, e.u, e.v)

-----------------------------------------------------------------------------
(* The values handed to the pathloss stage *)

\* The distance between two points in hundredths of a metre, rounded up.
IsDistance(d, a, b) ==
    /\ d >= 0
    /\ d * d >= 10000 * DistSq(a, b)
    /\ d = 0 \/ (d - 1) * (d - 1) < 10000 * DistSq(a, b)

\* The place of vehicle v in the group.
PlaceIn(group, v) == CHOOSE k \in 1..Len(group) : group[k] = v

\* C14: the pathloss of a LOS or OLOS vehicle is the value of pathloss_los
\* or pathloss_olos for the one distance between it and the centre vehicle,
\* that of an NLOS-orthogonal vehicle the value of pathloss_nlos for the two
\* distances centre vehicle - relay point and relay point - vehicle, and
\* that of an NLOS-parallel vehicle is infinite with no distance taken; an
\* NLOS-parallel vehicle is never in range.
C14_PathlossInputsByClass ==
    pc \in {"pathloss", "ranged"} =>
      \A k \in 1..Len(OtherIdx) :
        LET v      == OtherIdx[k]
            pl     == pathlosses[k]
            here   == XY(points[v])
            center == XY(points[index_center_veh + 1])
            relay  == orth.coords_max_angle[PlaceIn(NlosIdx, v)]
        IN  /\ Occurrences(LosIdx, v) = 1 =>
                  /\ pl.fn = "pathloss_los"
                  /\ Len(pl.distances) = 1
                  /\ IsDistance(pl.distances[1], here, center)
            /\ Occurrences(OlosIdx, v) = 1 =>
                  /\ pl.fn = "pathloss_olos"
                  /\ Len(pl.distances) = 1
                  /\ IsDistance(pl.distances[1], here, center)
            /\ Occurrences(OrthIdx, v) = 1 =>
                  /\ pl.fn = "pathloss_nlos"
                  /\ Len(pl.distances) = 2
                  /\ IsDistance(pl.distances[1], center, relay)
                  /\ IsDistance(pl.distances[2], here, relay)
            /\ Occurrences(ParIdx, v) = 1 =>
                  /\ pl = Infinity
                  /\ pl.distances = <<>>
                  /\ pc = "ranged" => ~index_in_range[k]

\* A run with a LOS, an NLOS-orthogonal and an NLOS-parallel vehicle that
\* reached the in-range decision, with the LOS vehicle in range.
C14_Witness ==
    /\ pc = "ranged"
    /\ LosIdx # <<>>
    /\ OrthIdx # <<>>
    /\ ParIdx # <<>>
    /\ \E k \in 1..Len(OtherIdx) : index_in_range[k] /\ pathlosses[k].fn = "pathloss_los"

-----------------------------------------------------------------------------
(* Splitting a line and merging the parts again *)

\* ops.linemerge of the two parts a call of split_line_at_point returned.
Remerged == linemerge(<<ret.line_before, ret.line_after>>)

\* C15: the parts of a split, merged again, are one line with the vertices
\* of the line that was split, in their order, and with its length.
C15_SplitMergeRestoresLine ==
    ret.kind = "returned" =>
      /\ Remerged.type = "LineString"
      /\ [i \in 1..Len(Remerged.coords) |-> XY(Remerged.coords[i])]
            = [i \in 1..Len(args.line) |-> XY(args.line[i])]
      /\ LineLength(Remerged.coords) = LineLength(args.line)

\* What the code gives: line_before ends where the rim of the disk cuts the
\* line before the point and line_after starts where it cuts the line after
\* it, so the two parts share no end and do not merge into one line.
SplitPartsStayApart ==
    ret.kind = "returned" =>
      /\ ret.line_before[Len(ret.line_before)] # ret.line_after[1]
      /\ Remerged.type = "MultiLineString"

-----------------------------------------------------------------------------
(* SpecAngles: angles_along_line and the turn contributions of             *)
(* check_if_cons_orthogonal on lines of every heading                       *)

\* Number of vertices of the longest line drawn.
MaxAngleVertices == 4

\* The steps from one vertex to the next: the compass directions, the
\* diagonals and the directions of slope 1:2 and 2:1.
AngleSteps ==
    {d \in (-2..2) \X (-2..2) : Gcd(Abs(d[1]), Abs(d[2])) = 1}

RECURSIVE LineFromSteps(_, _, _)
\* The line from vertex p on that takes the steps from number i on.
LineFromSteps(p, steps, i) ==
    IF i > Len(steps) THEN <<Vtx(p)>>
    ELSE <<Vtx(p)>> \o LineFromSteps(<<p[1] + steps[i][1], p[2] + steps[i][2]>>, steps, i + 1)

AnglesInit ==
    /\ \E n \in 3..MaxAngleVertices :
          \E steps \in [1..(n - 1) -> AngleSteps] :
            args = [coords |-> LineFromSteps(<<0, 0>>, steps, 1)]
    /\ ret = NotCalled
    /\ LosIdle
    /\ MainIdle
    /\ VehsIdle

\* angles = angles_along_line(route);
\* angles_wrapped = np.pi - np.abs(wrap_to_pi(angles))
Call_angles_along_line ==
    /\ ret = NotCalled
    /\ LET angles == angles_along_line(args.coords)
       IN  ret' = [kind |-> "returned",
                   angles |-> angles,
                   angles_wrapped |-> [i \in 1..Len(angles) |->
                                          PI - Abs(wrap_to_pi(angles[i]))]]
    /\ UNCHANGED <<args, losVars, vehVars, mainVars>>

AnglesNext == Call_angles_along_line

SpecAngles == AnglesInit /\ [][AnglesNext]_vars

\* The step of the line into vertex number i + 1 and the step out of it.
StepIn(i) ==
    <<args.coords[i + 1][1] - args.coords[i][1], args.coords[i + 1][2] - args.coords[i][2]>>

StepOut(i) == StepIn(i + 1)

Dot(u, v) == u[1] * v[1] + u[2] * v[2]

Det(u, v) == u[1] * v[2] - u[2] * v[1]

\* The heading np.arctan2 gives the step into vertex number i + 1.
Heading(i) == arctan2(StepIn(i)[1], StepIn(i)[2])

\* C16: the contribution of every inner vertex is the size of the angle
\* between the step into it and the step out of it, lies in [0, pi], and is
\* 0 where the line goes straight on, pi/2 at a right angle to either side
\* and pi where the line turns back.
C16_TurnContribution ==
    ret # NotCalled =>
      /\ Len(ret.angles_wrapped) = Len(args.coords) - 2
      /\ \A i \in 1..Len(ret.angles_wrapped) :
            LET w == ret.angles_wrapped[i]
                u == StepIn(i)
                v == StepOut(i)
            IN  /\ w = TurnAngle(u, v)
                /\ 0 <= w /\ w <= PI
                /\ (Det(u, v) = 0 /\ Dot(u, v) > 0) => w = 0
                /\ Dot(u, v) = 0 => w = PI \div 2
                /\ (Det(u, v) = 0 /\ Dot(u, v) < 0) => w = PI

\* A line with two right angles, one where the difference of the headings
\* is pi or more and one, to the other side, where it is less.
C16_Witness ==
    /\ ret # NotCalled
    /\ \E i, j \in 1..Len(ret.angles_wrapped) :
          /\ Heading(i + 1) - Heading(i) >= PI
          /\ ret.angles_wrapped[i] = PI \div 2
          /\ Heading(j + 1) - Heading(j) < PI
          /\ Det(StepIn(j), StepOut(j)) < 0
          /\ ret.angles_wrapped[j] = PI \div 2
          /\ Det(StepIn(i), StepOut(i)) > 0

-----------------------------------------------------------------------------
(* The relay point *)

\* The turn of the line coords at its vertex number k, 1 < k < Len(coords).
TurnAt(coords, k) ==
    TurnAngle(<<coords[k][1] - coords[k - 1][1], coords[k][2] - coords[k - 1][2]>>,
              <<coords[k + 1][1] - coords[k][1], coords[k + 1][2] - coords[k][2]>>)

\* C17: for every pair the call decided, the relay point is an inner vertex
\* of the route, one of greatest turn and the first of these along the
\* route; it is not the first and not the last vertex of the route.
C17_RelayAtGreatestTurn ==
    ret # NotCalled =>
      \A i \in 1..Len(ret.coords_max_angle) :
        LET coords == ret.route[i].coords
            n      == Len(coords)
            relay  == ret.coords_max_angle[i]
        IN  /\ n >= 3
            /\ \E k \in 2..(n - 1) :
                  /\ XY(coords[k]) = relay
                  /\ \A j \in 2..(n - 1) : TurnAt(coords, j) <= TurnAt(coords, k)
                  /\ \A j \in 2..(k - 1) : TurnAt(coords, j) < TurnAt(coords, k)
            /\ relay # XY(coords[1])
            /\ relay # XY(coords[n])

\* A call that decided two pairs, one of them with a route of two inner
\* vertices of the same greatest turn: the relay point is the first.
C17_Witness ==
    /\ ret.kind = "returned"
    /\ Len(ret.coords_max_angle) = 2
    /\ \E i \in 1..Len(ret.coords_max_angle) :
          LET ci == ret.route[i].coords
          IN  /\ Len(ci) = 4
              /\ TurnAt(ci, 2) = TurnAt(ci, 3)
              /\ TurnAt(ci, 2) > 0
              /\ ret.coords_max_angle[i] = XY(ci[2])
              /\ ret.coords_max_angle[i] # XY(ci[3])

-----------------------------------------------------------------------------
(* The route of a pair *)

\* The least length among the parallel edges between a and b.
LeastLength(g, a, b) ==
    LET ls == {e.length : e \in EdgesBetween(g, a, b)}
    IN  CHOOSE l \in ls : \A m \in ls : l <= m

RECURSIVE PathLengthFrom(_, _, _)
\* The length of the path from its node number k on, every step by its
\* shortest edge.
PathLengthFrom(g, path, k) ==
    IF k >= Len(path) THEN 0
    ELSE LeastLength(g, path[k], path[k + 1]) + PathLengthFrom(g, path, k + 1)

\* d bounds the length of every walk from node_from from below: it is 0 at
\* node_from and grows along an edge by no more than the edge is long.
LowerBound(g, d, node_from) ==
    /\ d[node_from] = 0
    /\ \A e \in g.edges :
          /\ d[e.u] # Unreached => (d[e.v] # Unreached /\ d[e.v] <= d[e.u] + e.length)
          /\ d[e.v] # Unreached => (d[e.u] # Unreached /\ d[e.u] <= d[e.v] + e.length)

\* The geometries of the shortest parallel edges between a and b.
ShortestGeometries(g, a, b) ==
    {e.geometry : e \in {f \in EdgesBetween(g, a, b) : f.length = LeastLength(g, a, b)}}

RECURSIVE Follows(_, _, _, _, _)
\* From its vertex number at on, the line c runs along a shortest edge of
\* every step of the path from node number k on, one after the other, and
\* ends with the last.
Follows(g, path, k, c, at) ==
    IF k >= Len(path) THEN at = Len(c)
    ELSE \E geo \in ShortestGeometries(g, path[k], path[k + 1]) :
            /\ at + Len(geo) - 1 <= Len(c)
            /\ SubSeq(c, at, at + Len(geo) - 1) \in {geo, Reverse(geo)}
            /\ Follows(g, path, k + 1, c, at + Len(geo) - 1)

\* C18: the path of every pair routed leads from the own vehicle to the
\* other one along edges of the working graph, no walk between the two is
\* shorter by length, and the route is one line that runs, from one end
\* to the other, along a shortest parallel edge of every step of the path
\* in the order of the steps.
C18_RouteIsShortest ==
    ret # NotCalled =>
      \A i \in 1..Len(ret.path) :
        LET g        == WorkingGraph(i)
            path     == ret.path[i]
            node_own == args.graphs_veh[1].graph.node_veh
            node_v   == args.graphs_veh[i + 1].graph.node_veh
            d        == Distances(g, node_own)
        IN  /\ path[1] = node_own
            /\ path[Len(path)] = node_v
            /\ \A k \in 1..(Len(path) - 1) : has_edge(g, path[k], path[k + 1])
            /\ LowerBound(g, d, node_own)
            /\ PathLengthFrom(g, path, 1) = d[node_v]
            /\ ret.route[i].type = "LineString"
            /\ \/ Follows(g, path, 1, ret.route[i].coords, 1)
               \/ Follows(g, path, 1, Reverse(ret.route[i].coords), 1)

\* A call in the town with the two streets from b to c whose path takes the
\* step b-c: the route runs along the straight street, the second of the
\* two parallel edges.
C18_Witness ==
    /\ ret.kind = "returned"
    /\ args.streets_wave = WaveParallel
    /\ \E i \in 1..Len(ret.path) :
          /\ Len(ret.path[i]) = 4
          /\ \E k \in 1..3 : {ret.path[i][k], ret.path[i][k + 1]} = {"b", "c"}
          /\ \E k \in 1..(Len(ret.route[i].coords) - 1) :
                {XY(ret.route[i].coords[k]), XY(ret.route[i].coords[k + 1])}
                    = {<<30, 0>>, <<60, 0>>}

-----------------------------------------------------------------------------
(* The working graph of a pair *)

\* The three graphs the working graph of pair i is made of.
PartsOf(i) == <<args.streets_wave, args.graphs_veh[1], args.graphs_veh[i + 1]>>

\* C19: the working graph of every pair holds the nodes of streets_wave
\* and of the two local graphs, each once and a node of streets_wave with
\* its attributes, and holds the edges of the three graphs as they are,
\* with key, length and geometry: between any two nodes as many edges as
\* the three graphs have between them together.
C19_WorkingGraphIsUnion ==
    ret # NotCalled =>
      \A i \in 1..(Len(args.graphs_veh) - 1) :
        LET g     == WorkingGraph(i)
            parts == PartsOf(i)
        IN  /\ SeqRange(g.nodes) = UNION {SeqRange(parts[k].nodes) : k \in 1..3}
            /\ Cardinality(SeqRange(g.nodes)) = Len(g.nodes)
            /\ \A n \in SeqRange(parts[1].nodes) : g.node[n] = parts[1].node[n]
            /\ \A k \in 2..3 :
                  g.node[parts[k].graph.node_veh] = parts[k].node[parts[k].graph.node_veh]
            /\ g.edges = UNION {parts[k].edges : k \in 1..3}
            /\ \A a, b \in SeqRange(g.nodes) :
                  Cardinality(EdgesBetween(g, a, b))
                    = Cardinality(EdgesBetween(parts[1], a, b))
                      + Cardinality(EdgesBetween(parts[2], a, b))
                      + Cardinality(EdgesBetween(parts[3], a, b))

\* A call, in the town with two streets from b to c, for two vehicles that
\* stand on one street: the local graphs share both intersections with each
\* other and with streets_wave, and the pair was routed.
C19_Witness ==
    /\ ret # NotCalled
    /\ args.streets_wave = WaveParallel
    /\ Len(ret.path) >= 1
    /\ SeqRange(args.graphs_veh[1].nodes) \cap SeqRange(args.graphs_veh[2].nodes) = {"b", "c"}
    /\ Cardinality(EdgesBetween(WorkingGraph(1), "b", "c")) = 2
    /\ Len(WorkingGraph(1).nodes) = Len(args.streets_wave.nodes) + 2
    /\ Cardinality(WorkingGraph(1).edges) = Cardinality(args.streets_wave.edges) + 4

-----------------------------------------------------------------------------
(* A failure and the rest of the call *)

\* C20: a pair without a connecting path fails alone: every other pair of
\* the call, before it or after it, that has a connecting path still gets
\* its orthogonal/parallel flag and its relay point.
C20_FailureIsLocal ==
    (ret.kind = "raised" /\ ret.error = "NetworkXNoPath") =>
      \A i \in 1..(Len(args.graphs_veh) - 1) :
        ~NoConnectingPath(i) =>
          /\ i <= Len(ret.is_orthogonal)
          /\ i <= Len(ret.coords_max_angle)

\* What the code gives: the first pair without a connecting path ends the
\* call; the pairs after it are not looked at, whether they have a path or
\* not, and the call hands its caller the error alone.
NoPathEndsCall ==
    (ret.kind = "raised" /\ ret.error = "NetworkXNoPath") =>
      /\ NoConnectingPath(ret.index + 1)
      /\ Len(ret.is_orthogonal) = ret.index
      /\ Len(ret.path) = ret.index
      /\ \A i \in 1..ret.index : ~NoConnectingPath(i)

\* A call that failed at its first pair though its second pair has a
\* connecting path.
LaterPairLeftOut ==
    /\ ret.kind = "raised"
    /\ ret.error = "NetworkXNoPath"
    /\ ret.index = 0
    /\ Len(args.graphs_veh) = 3
    /\ ~NoConnectingPath(2)
    /\ Len(ret.is_orthogonal) = 0

-----------------------------------------------------------------------------
(* SpecVehs: the Vehicles table of vehicles.py, driven by every sequence   *)
(* of allocate, add_key, set_* and get_* calls                              *)
(*                                                                         *)
(* A numpy array is a sequence; position i of the sequence is index i - 1  *)
(* of the array.  An index set is [kind |-> "index", at |-> the integer    *)
(* index array] or [kind |-> "mask", at |-> the boolean mask].  The cells  *)
(* of pathlosses and distances are whole numbers.                          *)

\* The greatest size of the arrays.
MaxSize == 2


\* The names the index sets are registered under.
Keys == {"center", "other"}

\* The greatest number of set_* calls between two calls of allocate or
\* add_key: as many as there are keys.
MaxWrites == Cardinality(Keys)

\* key=None, the default of the getters.
None == "None"

\* The index sets handed to add_key: the first position, the first two
\* positions last first, a repeated position, a position past the greatest
\* size, and the mask of the greatest size that picks the last position.
IndexValues ==
    {[kind |-> "index", at |-> a] : a \in {<<0>>, <<1, 0>>, <<1, 1>>, <<MaxSize>>}}
    \cup {[kind |-> "mask", at |-> [i \in 1..MaxSize |-> i = MaxSize]]}

\* The values handed to the setters.
SetValues == {<<1>>, <<1, 2>>}

\* The points and the graphs the table is built over.
TablePoints == <<(<<0, 0, 0>>), (<<10, 0, 0>>)>>

TableGraphs == <<"graph of vehicle 0", "graph of vehicle 1">>

\* What geom_o.extract_point_array(points) gave for these points.
TableCoordinates == <<(<<0, 0>>), (<<10, 0>>)>>

\* np.zeros(size)
np_zeros(size) == [i \in 1..size |-> 0]

\* np.zeros(size, dtype=bool)
np_zeros_bool(size) == [i \in 1..size |-> FALSE]

\* Vehicles(points, graphs, size)
Vehicles(pts, grs, size) ==
    [count       |-> Len(pts),
     points      |-> pts,
     coordinates |-> TableCoordinates,
     graphs      |-> grs,
     pathlosses  |-> np_zeros(size),
     distances   |-> np_zeros(size),
     nlos        |-> np_zeros_bool(size),
     idxs        |-> <<>>]

\* A slip: only the pathlosses are laid out anew.
allocate_pathlosses(v, size) == [v EXCEPT !.pathlosses = np_zeros(size)]

\* Vehicles.allocate(size)
allocate(v, size) ==
    [v EXCEPT !.pathlosses = np_zeros(size),
              !.distances  = np_zeros(size),
              !.nlos       = np_zeros_bool(size)]

\* Vehicles.add_key(key, value): self.idxs[key] = value
add_key(v, key, value) ==
    [v EXCEPT !.idxs = [k \in (DOMAIN v.idxs) \cup {key} |->
                           IF k = key THEN value ELSE v.idxs[k]]]

\* The number of cells an index set asks for.
Count(value) ==
    IF value.kind = "mask" THEN CountTrue(value.at) ELSE Len(value.at)

\* The positions of an array of n cells that an index set addresses, in the
\* order numpy visits them; not ok (IndexError) for a mask of another
\* length or an index past the end.
Addressed(n, value) ==
    IF value.kind = "mask"
    THEN IF Len(value.at) # n THEN [ok |-> FALSE, at |-> <<>>]
         ELSE [ok |-> TRUE, at |-> Compress([i \in 1..n |-> i], value.at)]
    ELSE IF \E i \in 1..Len(value.at) : value.at[i] >= n
         THEN [ok |-> FALSE, at |-> <<>>]
         ELSE [ok |-> TRUE, at |-> [i \in 1..Len(value.at) |-> value.at[i] + 1]]

\* a[value]
getitem(a, value) ==
    LET cells == Addressed(Len(a), value)
    IN  IF ~cells.ok THEN [kind |-> "raised", error |-> "IndexError"]
        ELSE [kind |-> "returned",
              value |-> [i \in 1..Len(cells.at) |-> a[cells.at[i]]]]

\* A slip: every cell of the array is written.
setitem_all(a, value, values) ==
    {[kind |-> "returned", array |-> [p \in 1..Len(a) |-> values[1]]]}

\* a[value] = values: the outcomes.  values of one cell are broadcast; with
\* a repeated index the last one written stays.  When both the index set
\* and the shape of values are at fault either error may come first.
setitem(a, value, values) ==
    LET cells == Addressed(Len(a), value)
        at == cells.at
        fits == Len(values) \in {1, Count(value)}
        cast(i) == IF Len(values) = 1 THEN values[1] ELSE values[i]
        last(p) == CHOOSE i \in 1..Len(at) :
                      at[i] = p /\ \A j \in (i + 1)..Len(at) : at[j] # p
    IN  IF ~cells.ok
        THEN {[kind |-> "raised", error |-> e] :
                 e \in {"IndexError"} \cup (IF fits THEN {} ELSE {"ValueError"})}
        ELSE IF ~fits THEN {[kind |-> "raised", error |-> "ValueError"]}
        ELSE {[kind |-> "returned",
               array |-> [p \in 1..Len(a) |->
                            IF \E i \in 1..Len(at) : at[i] = p
                            THEN cast(last(p)) ELSE a[p]]]}

\* What a setter does with the outcome of the assignment to array a.
Stored(v, field, o) ==
    IF o.kind # "returned" THEN [ret |-> o, vehicles |-> v]
    ELSE [ret |-> [kind |-> "returned"],
          vehicles |-> IF field = "pathlosses"
                       THEN [v EXCEPT !.pathlosses = o.array]
                       ELSE [v EXCEPT !.distances = o.array]]

KeyError == [kind |-> "raised", error |-> "KeyError"]

\* Vehicles.set_pathlosses(key, values):
\* self.pathlosses[self.idxs[key]] = values
set_pathlosses(v, key, values) ==
    IF key \notin DOMAIN v.idxs THEN {[ret |-> KeyError, vehicles |-> v]}
    ELSE {Stored(v, "pathlosses", o) :
             o \in setitem(v.pathlosses, v.idxs[key], values)}

\* Vehicles.set_distances(key, values)
set_distances(v, key, values) ==
    IF key \notin DOMAIN v.idxs THEN {[ret |-> KeyError, vehicles |-> v]}
    ELSE {Stored(v, "distances", o) :
             o \in setitem(v.distances, v.idxs[key], values)}

\* A slip: the key is not looked at.
get_pathlosses_whole(v, key) == [kind |-> "returned", value |-> v.pathlosses]

\* Vehicles.get_pathlosses(key=None)
get_pathlosses(v, key) ==
    IF key = None THEN [kind |-> "returned", value |-> v.pathlosses]
    ELSE IF key \notin DOMAIN v.idxs THEN KeyError
    ELSE getitem(v.pathlosses, v.idxs[key])

\* Vehicles.get_distances(key=None)
get_distances(v, key) ==
    IF key = None THEN [kind |-> "returned", value |-> v.distances]
    ELSE IF key \notin DOMAIN v.idxs THEN KeyError
    ELSE getitem(v.distances, v.idxs[key])

\* The entry of the journal for a set_* call that went through.
Written(op, key, values) == [op |-> op, key |-> key, values |-> values]

VehsInit ==
    /\ \E size \in 0..MaxSize : vehicles = Vehicles(TablePoints, TableGraphs, size)
    /\ journal = <<>>
    /\ FnIdle
    /\ LosIdle
    /\ MainIdle

\* vehs.allocate(size)
Call_allocate ==
    /\ \E size \in 0..MaxSize :
          /\ args' = [op |-> "allocate", size |-> size]
          /\ vehicles' = allocate(vehicles, size)
    /\ ret' = [kind |-> "returned"]
    /\ journal' = <<>>
    /\ UNCHANGED <<losVars, mainVars>>

\* vehs.add_key(key, value)
Call_add_key ==
    /\ \E key \in Keys, value \in IndexValues :
          /\ args' = [op |-> "add_key", key |-> key, value |-> value]
          /\ vehicles' = add_key(vehicles, key, value)
    /\ ret' = [kind |-> "returned"]
    /\ journal' = <<>>
    /\ UNCHANGED <<losVars, mainVars>>

\* vehs.set_pathlosses(key, values)
Call_set_pathlosses ==
    /\ Len(journal) < MaxWrites
    /\ \E key \in Keys, values \in SetValues :
          /\ args' = [op |-> "set_pathlosses", key |-> key, values |-> values]
          /\ \E o \in set_pathlosses(vehicles, key, values) :
                /\ ret' = o.ret
                /\ vehicles' = o.vehicles
                /\ journal' = IF o.ret.kind = "returned"
                              THEN Append(journal,
                                          Written("set_pathlosses", key, values))
                              ELSE journal
    /\ UNCHANGED <<losVars, mainVars>>

\* vehs.set_distances(key, values)
Call_set_distances ==
    /\ Len(journal) < MaxWrites
    /\ \E key \in Keys, values \in SetValues :
          /\ args' = [op |-> "set_distances", key |-> key, values |-> values]
          /\ \E o \in set_distances(vehicles, key, values) :
                /\ ret' = o.ret
                /\ vehicles' = o.vehicles
                /\ journal' = IF o.ret.kind = "returned"
                              THEN Append(journal,
                                          Written("set_distances", key, values))
                              ELSE journal
    /\ UNCHANGED <<losVars, mainVars>>

\* vehs.get_pathlosses(key) and vehs.get_pathlosses()
Call_get_pathlosses ==
    /\ \E key \in Keys \cup {None} :
          /\ args' = [op |-> "get_pathlosses", key |-> key]
          /\ ret' = get_pathlosses(vehicles, key)
    /\ UNCHANGED <<vehVars, losVars, mainVars>>

\* vehs.get_distances(key) and vehs.get_distances()
Call_get_distances ==
    /\ \E key \in Keys \cup {None} :
          /\ args' = [op |-> "get_distances", key |-> key]
          /\ ret' = get_distances(vehicles, key)
    /\ UNCHANGED <<vehVars, losVars, mainVars>>

VehsNext ==
    \/ Call_allocate
    \/ Call_add_key
    \/ Call_set_pathlosses
    \/ Call_set_distances
    \/ Call_get_pathlosses
    \/ Call_get_distances

SpecVehs == VehsInit /\ [][VehsNext]_vars

\* The cells (counted from 0) an index set picks.
PickedCells(value) ==
    IF value.kind = "mask" THEN {i - 1 : i \in {j \in 1..Len(value.at) : value.at[j]}}
    ELSE {value.at[i] : i \in 1..Len(value.at)}

\* The call of the step is op.
Called(op) == args'.op = op

\* The call of the step went through a registered key.
ThroughKey == args'.key \in DOMAIN vehicles.idxs

\* C21: after every call the arrays pathlosses, distances and nlos have one
\* length, which is the size of the latest allocate (no other call changes
\* it), and an array that get_pathlosses(key) or get_distances(key) returns
\* for a registered key has as many cells as the index set of the key asks
\* for.
C21_LengthsAgree ==
    [][/\ Len(vehicles'.pathlosses) = Len(vehicles'.distances)
       /\ Len(vehicles'.pathlosses) = Len(vehicles'.nlos)
       /\ Len(vehicles'.pathlosses) =
             IF Called("allocate") THEN args'.size ELSE Len(vehicles.pathlosses)
       /\ (/\ Called("get_pathlosses") \/ Called("get_distances")
           /\ ThroughKey
           /\ ret'.kind = "returned")
          => Len(ret'.value) = Count(vehicles.idxs[args'.key])]_vars

\* A getter returned two cells through a key with a repeated index, after a
\* setter went through.
C21_Witness ==
    /\ vehicles # <<>>
    /\ args # <<>>
    /\ args.op = "get_distances"
    /\ args.key \in DOMAIN vehicles.idxs
    /\ vehicles.idxs[args.key].kind = "index"
    /\ vehicles.idxs[args.key].at = <<1, 1>>
    /\ ret.kind = "returned"
    /\ Len(ret.value) = 2
    /\ journal # <<>>

\* The table but for its field idxs.
Data(v) == [f \in (DOMAIN v) \ {"idxs"} |-> v[f]]

\* Array b is array a but for the cells the index set picks.
SameOutside(a, b, value) ==
    /\ Len(a) = Len(b)
    /\ \A p \in 1..Len(a) : (p - 1) \notin PickedCells(value) => b[p] = a[p]

\* C22: add_key changes nothing but the index set of its key, and
\* set_pathlosses (set_distances) changes nothing but the cells of
\* pathlosses (distances) that the index set of its key picks: the cells
\* outside, the other arrays, the points, coordinates and graphs and the
\* registered keys stay as they are.
C22_KeysOwnNoData ==
    [][/\ Called("add_key") =>
             /\ Data(vehicles') = Data(vehicles)
             /\ DOMAIN vehicles'.idxs = (DOMAIN vehicles.idxs) \cup {args'.key}
             /\ vehicles'.idxs[args'.key] = args'.value
             /\ \A k \in (DOMAIN vehicles.idxs) \ {args'.key} :
                   vehicles'.idxs[k] = vehicles.idxs[k]
       /\ (Called("set_pathlosses") /\ ThroughKey) =>
             /\ [vehicles' EXCEPT !.pathlosses = vehicles.pathlosses] = vehicles
             /\ SameOutside(vehicles.pathlosses, vehicles'.pathlosses,
                            vehicles.idxs[args'.key])
       /\ (Called("set_distances") /\ ThroughKey) =>
             /\ [vehicles' EXCEPT !.distances = vehicles.distances] = vehicles
             /\ SameOutside(vehicles.distances, vehicles'.distances,
                            vehicles.idxs[args'.key])]_vars

\* set_pathlosses wrote the first cell through a key and the second cell,
\* the distances and the other key are as they were set before.
C22_Witness ==
    /\ vehicles # <<>>
    /\ args # <<>>
    /\ args.op = "set_pathlosses"
    /\ ret.kind = "returned"
    /\ DOMAIN vehicles.idxs = Keys
    /\ vehicles.idxs[args.key].kind = "index"
    /\ vehicles.idxs[args.key].at = <<0>>
    /\ vehicles.pathlosses = <<1, 2>>
    /\ vehicles.distances = <<2, 1>>

\* The index set names no cell twice.
NoRepeatedIndex(value) ==
    value.kind = "mask" \/ Cardinality(PickedCells(value)) = Len(value.at)

\* The index set fits an array of n cells.
WithinSize(value, n) ==
    /\ \A c \in PickedCells(value) : c < n
    /\ value.kind = "mask" => Len(value.at) = n

\* Entry i of the journal set values through key on the array of the getter
\* op, values has the shape of the index set, and every later entry on that
\* array went through another key whose index set is disjoint.
StillStands(i, op, key) ==
    LET setter == IF op = "get_pathlosses" THEN "set_pathlosses" ELSE "set_distances"
    IN  /\ journal[i].op = setter
        /\ journal[i].key = key
        /\ Len(journal[i].values) = Count(vehicles.idxs[key])
        /\ \A j \in (i + 1)..Len(journal) :
              journal[j].op = setter =>
                 /\ journal[j].key # key
                 /\ PickedCells(vehicles.idxs[journal[j].key])
                       \cap PickedCells(vehicles.idxs[key]) = {}

-----------------------------------------------------------------------------
(* SpecTraces: min_max_coords of sumo.py on bounded vehicle traces          *)
(*                                                                         *)
(* traces is the sequence of timesteps; a timestep is the sequence of its  *)
(* vehicle records [x, y] (time and id are not read).                      *)

\* The greatest number of timesteps of the traces.
MaxTimesteps == 2

\* The greatest number of vehicles in one timestep.
MaxVehsPerTimestep == 2

\* The positions a vehicle is recorded at.
TracePositions == {<<0, 5>>, <<3, 1>>, <<7, 4>>}

TraceRecords == {[x |-> p[1], y |-> p[2]] : p \in TracePositions}

\* The timesteps drawn, the ones without a vehicle among them.
Timesteps == UNION {[1..n -> TraceRecords] : n \in 0..MaxVehsPerTimestep}

\* trace['x'].min() and the like, for a trace with a record
ColumnMin(trace, column) ==
    CHOOSE m \in {trace[i][column] : i \in 1..Len(trace)} :
        \A i \in 1..Len(trace) : m <= trace[i][column]

ColumnMax(trace, column) ==
    CHOOSE m \in {trace[i][column] : i \in 1..Len(trace)} :
        \A i \in 1..Len(trace) : m >= trace[i][column]

RECURSIVE MinMaxLoop(_, _, _)
\* for trace in traces: ..., from timestep i on
MinMaxLoop(traces, i, acc) ==
    IF i > Len(traces) THEN acc
    ELSE IF Len(traces[i]) = 0 THEN MinMaxLoop(traces, i + 1, acc)
    ELSE LET x_min_iter == ColumnMin(traces[i], "x")
             x_max_iter == ColumnMax(traces[i], "x")
             y_min_iter == ColumnMin(traces[i], "y")
             y_max_iter == ColumnMax(traces[i], "y")
         IN  MinMaxLoop(traces, i + 1,
                 [x_min |-> IF x_min_iter < acc.x_min THEN x_min_iter ELSE acc.x_min,
                  x_max |-> IF x_max_iter > acc.x_max THEN x_max_iter ELSE acc.x_max,
                  y_min |-> IF y_min_iter < acc.y_min THEN y_min_iter ELSE acc.y_min,
                  y_max |-> IF y_max_iter > acc.y_max THEN y_max_iter ELSE acc.y_max])

\* min_max_coords(traces).  traces[0][0] is read before the loop: it raises
\* IndexError when there is no timestep or the first one has no vehicle.
min_max_coords(traces) ==
    IF Len(traces) = 0 \/ Len(traces[1]) = 0
    THEN [kind |-> "raised", error |-> "IndexError"]
    ELSE LET first == traces[1][1]
             out == MinMaxLoop(traces, 1, [x_min |-> first.x, x_max |-> first.x,
                                           y_min |-> first.y, y_max |-> first.y])
         IN  [kind |-> "returned",
              value |-> <<out.x_min, out.x_max, out.y_min, out.y_max>>]

TracesInit ==
    /\ \E n \in 0..MaxTimesteps : \E t \in [1..n -> Timesteps] :
          args = [traces |-> t]
    /\ ret = NotCalled
    /\ LosIdle
    /\ MainIdle
    /\ VehsIdle

Call_min_max_coords ==
    /\ ret = NotCalled
    /\ ret' = min_max_coords(args.traces)
    /\ UNCHANGED <<args, losVars, vehVars, mainVars>>

TracesNext == Call_min_max_coords

SpecTraces == TracesInit /\ [][TracesNext]_vars

\* The vehicle records of all timesteps.
AllRecords(traces) ==
    {traces[i][j] : <<i, j>> \in {q \in (1..Len(traces)) \X (1..MaxVehsPerTimestep) :
                                     q[2] <= Len(traces[q[1]])}}

\* <<x_min, x_max, y_min, y_max>> over a set of records that is not empty.
Extent(records) ==
    <<CHOOSE m \in {r.x : r \in records} : \A r \in records : m <= r.x,
      CHOOSE m \in {r.x : r \in records} : \A r \in records : m >= r.x,
      CHOOSE m \in {r.y : r \in records} : \A r \in records : m <= r.y,
      CHOOSE m \in {r.y : r \in records} : \A r \in records : m >= r.y>>

\* C24: for traces with at least one vehicle record min_max_coords returns
\* the least and the greatest x and y over the records of all timesteps,
\* wherever the timesteps without a vehicle are, the first one included,
\* and does not raise.
C24_MinMaxSkipsEmpty ==
    (ret # NotCalled /\ AllRecords(args.traces) # {}) =>
        ret = [kind |-> "returned", value |-> Extent(AllRecords(args.traces))]

\* When the first timestep has a vehicle the result is the extent of all
\* records, the timesteps without a vehicle after the first being skipped.
MinMaxWhenFirstHasVehicle ==
    (ret # NotCalled /\ Len(args.traces) > 0 /\ Len(args.traces[1]) > 0) =>
        ret = [kind |-> "returned", value |-> Extent(AllRecords(args.traces))]

\* When the first timestep has no vehicle the call raises.
EmptyFirstTimestepRaises ==
    (ret # NotCalled /\ Len(args.traces) > 0 /\ Len(args.traces[1]) = 0) =>
        ret = [kind |-> "raised", error |-> "IndexError"]

\* The call raised on traces whose second timestep has vehicles.
VehiclesAfterEmptyFirst ==
    /\ ret = [kind |-> "raised", error |-> "IndexError"]
    /\ Len(args.traces) = 2
    /\ Len(args.traces[1]) = 0
    /\ Len(args.traces[2]) = 2

=============================================================================
